---- MODULE Spec2Model ----
(***************************************************************************)
(* sticky-one: clipboard-history daemon.                                   *)
(*                                                                         *)
(* The module models                                                       *)
(*   - the Entry model              (src/src/entry.rs),                    *)
(*   - the Storage engine           (src/src/storage.rs, an SQLite table), *)
(*   - the clipboard read adapter   (src/src/clipboard.rs),                *)
(*   - the hotkey listener          (src/src/hotkey/listener.rs),          *)
(*   - the daemon loop              (src/src/daemon.rs),                   *)
(*   - the popup's state machine    (src/src/gui/popup.rs).                *)
(*                                                                         *)
(* These specifications share the variables:                               *)
(*   Spec        the daemon: Daemon::new, Daemon::run and its select loop, *)
(*   FairSpec    Spec with the fairness of the timer and of select!,       *)
(*   StorageSpec the Storage API called directly (as the CLI commands and  *)
(*               the unit tests do),                                       *)
(*   ForeignSpec StorageSpec started on a file holding a row with an       *)
(*               unknown content-type tag,                                 *)
(*   HotkeySpec  HotkeyListener::listen with its device tasks,             *)
(*   MergeSpec   the listener fed by keyboards whose keys go down and up,  *)
(*   FairMergeSpec MergeSpec with the tasks scheduled,                     *)
(*   PreviewSpec Entry::display_preview applied to Entries,                *)
(*   ListenerEndSpec the daemon with a listener whose device tasks end,    *)
(*   ClearSpec   Spec with the clear command run meanwhile,                *)
(*   PartialSpec HotkeySpec with a configuration that names an unknown     *)
(*               modifier,                                                 *)
(*   PopupSpec   the popup process: PopupState::new and update.            *)
(*                                                                         *)
(* Text is a sequence of one-character strings, Option<T> is a sequence of *)
(* length at most one (None == << >>, Some(x) == <<x>>).                   *)
(***************************************************************************)
EXTENDS Integers, Sequences, FiniteSets, TLC

VARIABLES
    now,        \* chrono::Utc::now().timestamp(), seconds
    ticks,      \* how often the clock has advanced
    rows,       \* the rows of table entries
    ret,        \* StorageSpec: the last Storage call and what it returned
    issued,     \* the largest id Storage::insert has returned so far, 0 if none
    log,        \* the ids of the live rows, in the order they were inserted
    clip,       \* what the system clipboard holds
    pc,         \* the daemon's position
    last_hash,  \* Daemon.last_hash
    pid_file,   \* whether the liveness marker (daemon.pid) exists
    cfg,        \* Daemon.config.hotkey, the HotkeyConfig that Config::load returned
    ctrl_c,     \* whether the ctrl_c() future of the current select! is ready
    sigint,     \* whether a SIGINT has been delivered to the running loop
    hotkey_ch,  \* messages in the hotkey channel, mpsc::channel::<()>(1)
    popups,     \* calls of spawn_popup this daemon process has made
    ev,         \* the last event the daemon processed and what it did
    lpc,        \* HotkeySpec: the listener task's position
    pressed,    \* HotkeyListener::listen's pressed set
    event_ch,   \* the merged key-event channel, a queue of <<key, is_press>>
    dev,        \* per device task: "running" or "ended"
    fired,      \* combo signals the listener has emitted
    kev,        \* the last key event the listener took, and whether it fired
    keys_down,  \* MergeSpec: per device, the keys that are down on it
    popup_state \* PopupSpec: the PopupState of the popup process

storeVars  == <<now, ticks, rows, ret, issued, log>>
daemonVars == <<clip, pc, last_hash, pid_file, cfg, ctrl_c, sigint, popups, ev>>
hotkeyVars == <<lpc, pressed, event_ch, dev, fired, kev, keys_down, hotkey_ch>>
popupVars  == <<popup_state>>
vars == <<now, ticks, rows, ret, issued, log, clip, pc, last_hash, pid_file, cfg, ctrl_c, sigint,
          hotkey_ch, popups, ev, lpc, pressed, event_ch, dev, fired, kev, keys_down,
          popup_state>>

----------------------------------------------------------------------------
(* Bounds of the model *)

MaxRows == 2        \* rows the table may hold before inserts stop
MaxTicks == 2       \* clock advances in one behaviour
MaxPopups == 1      \* display-surface spawns in one behaviour
MaxFired == 2       \* combo signals in one behaviour
MaxEvents == 2      \* key events waiting in the merged channel
MaxPreviewChars == 3    \* characters of a text handed to display_preview
MaxPopupEntries == 3 \* Entries in the store when the popup opens
MaxPreviewLen == 3      \* the largest max_len handed to display_preview

(* Program constants *)

RETENTION_HOURS == 12
MAX_IMAGE_SIZE_BYTES == 5 * 1024 * 1024
HOTKEY_CHANNEL_CAP == 1
MAX_ENTRIES == 50             \* gui/popup.rs: MAX_ENTRIES
EVENT_CHANNEL_CAP == 100

----------------------------------------------------------------------------
(* Option and small helpers *)

None == << >>
Some(x) == <<x>>
IsSome(o) == Len(o) = 1
Unwrap(o) == o[1]

Min(a, b) == IF a < b THEN a ELSE b

Take(s, n) == SubSeq(s, 1, Min(n, Len(s)))

Range(s) == {s[i] : i \in 1..Len(s)}

----------------------------------------------------------------------------
(* Entry model: src/src/entry.rs *)

\* ContentType::as_str
as_str(ct) ==
    CASE ct = "Text" -> "text"
      [] ct = "Link" -> "link"
      [] ct = "Image" -> "image"

\* ContentType::parse that does not know the tag of a Link.
parse_without_link(s) ==
    CASE s = "text" -> Some("Text")
      [] s = "image" -> Some("Image")
      [] OTHER -> None

\* ContentType::parse: Option<ContentType>
parse(s) ==
    CASE s = "text" -> Some("Text")
      [] s = "link" -> Some("Link")
      [] s = "image" -> Some("Image")
      [] OTHER -> None

\* The characters a URL scheme is made of (of the model's alphabet).
SchemeChars == {"a", "b", "A", "B", "x"}
Whitespace == {" ", "\n"}

RECURSIVE trim_start(_)
trim_start(t) ==
    IF t # << >> /\ Head(t) \in Whitespace THEN trim_start(Tail(t)) ELSE t

RECURSIVE trim_end(_)
trim_end(t) ==
    IF t # << >> /\ t[Len(t)] \in Whitespace
    THEN trim_end(SubSeq(t, 1, Len(t) - 1))
    ELSE t

trim(t) == trim_end(trim_start(t))

\* is_url: Url::parse(text.trim()).is_ok(). Without a base URL the url crate
\* accepts exactly the inputs that start with a scheme and a colon.
is_url(text) ==
    LET t == trim(text)
    IN \E i \in 2..Len(t) :
          /\ t[i] = ":"
          /\ \A j \in 1..(i - 1) : t[j] \in SchemeChars

\* hash_content: SHA-256 rendered as hex; modelled as an injective function of
\* the bytes (equal bytes give equal hashes, different bytes different ones).
hash_content(data) == <<"sha256">> \o data

\* Entry::new_text
new_text(text, t) ==
    [id |-> 0,
     content_type |-> IF is_url(text) THEN "Link" ELSE "Text",
     content |-> Some(text),
     image_data |-> None,
     hash |-> hash_content(text),
     created_at |-> t]

\* Entry::new_image
new_image(data, t) ==
    [id |-> 0,
     content_type |-> "Image",
     content |-> None,
     image_data |-> Some(data),
     hash |-> hash_content(data),
     created_at |-> t]

----------------------------------------------------------------------------
(* Storage engine: src/src/storage.rs. The table entries is the set rows of *)
(* records [id, content_type, content, image_data, hash, created_at].      *)

MaxId(rs) == CHOOSE m \in {r.id : r \in rs} : \A r \in rs : r.id <= m

\* A rowid taken from the number of rows instead of the largest rowid.
next_rowid_by_count(rs) == Cardinality(rs) + 1

\* init_schema declares id INTEGER PRIMARY KEY (no AUTOINCREMENT): SQLite gives
\* a new row the rowid one larger than the largest rowid now in the table, and
\* 1 when the table is empty.
next_rowid(rs) == IF rs = {} THEN 1 ELSE MaxId(rs) + 1

\* The row Storage::insert writes for an Entry.
insert_row(rs, entry) ==
    [id |-> next_rowid(rs),
     content_type |-> as_str(entry.content_type),
     content |-> entry.content,
     image_data |-> entry.image_data,
     hash |-> entry.hash,
     created_at |-> entry.created_at]

\* insert into a table that holds one row per hash.
insert_unique_hash(rs, entry) ==
    IF \E r \in rs : r.hash = entry.hash THEN rs ELSE rs \cup {insert_row(rs, entry)}

\* Storage::insert: the table after the INSERT; last_insert_rowid() is
\* insert_row(rs, entry).id.
insert(rs, entry) == rs \cup {insert_row(rs, entry)}

\* row_to_entry that takes an unknown content-type tag for an image.
row_to_entry_unknown_as_image(row) ==
    [id |-> row.id,
     content_type |-> IF IsSome(parse(row.content_type))
                      THEN Unwrap(parse(row.content_type))
                      ELSE "Image",
     content |-> row.content,
     image_data |-> row.image_data,
     hash |-> row.hash,
     created_at |-> row.created_at]

\* row_to_entry that reads a NULL content as the empty string.
row_to_entry_content_default(row) ==
    [id |-> row.id,
     content_type |-> IF IsSome(parse(row.content_type))
                      THEN Unwrap(parse(row.content_type))
                      ELSE "Text",
     content |-> IF row.content = None THEN Some(<< >>) ELSE row.content,
     image_data |-> row.image_data,
     hash |-> row.hash,
     created_at |-> row.created_at]

\* row_to_entry: an unknown content-type tag becomes Text.
row_to_entry(row) ==
    [id |-> row.id,
     content_type |-> IF IsSome(parse(row.content_type))
                      THEN Unwrap(parse(row.content_type))
                      ELSE "Text",
     content |-> row.content,
     image_data |-> row.image_data,
     hash |-> row.hash,
     created_at |-> row.created_at]

\* idx_before with the rows of one second in the opposite order (what a sort
\* of the table by created_at alone would give).
idx_before_ties_by_age(a, b) ==
    \/ a.created_at < b.created_at
    \/ a.created_at = b.created_at /\ a.id > b.id

\* The order of index idx_created_at: by created_at, rows of one created_at by
\* rowid.
idx_before(a, b) ==
    \/ a.created_at < b.created_at
    \/ a.created_at = b.created_at /\ a.id < b.id

\* ORDER BY created_at DESC: SQLite answers it by scanning idx_created_at
\* backwards, so the rows come latest created_at first and, within one second,
\* largest rowid first.
RECURSIVE order_by_created_at_desc(_)
order_by_created_at_desc(rs) ==
    IF rs = {} THEN << >>
    ELSE LET top == CHOOSE r \in rs : \A o \in rs \ {r} : idx_before(o, r)
         IN <<top>> \o order_by_created_at_desc(rs \ {top})

MapRows(s) == [i \in 1..Len(s) |-> row_to_entry(s[i])]

\* get_latest_hash that takes the other end of the order.
get_latest_hash_oldest(rs) ==
    IF rs = {}
    THEN None
    ELSE Some(order_by_created_at_desc(rs)[Cardinality(rs)].hash)

\* Storage::get_latest_hash
get_latest_hash(rs) ==
    IF rs = {} THEN None ELSE Some(order_by_created_at_desc(rs)[1].hash)

\* get_by_id that falls back to the row with the largest id.
get_by_id_or_last(rs, id) ==
    IF \E r \in rs : r.id = id
    THEN <<"Ok", row_to_entry(CHOOSE r \in rs : r.id = id)>>
    ELSE IF rs = {}
         THEN <<"NotFound", id>>
         ELSE <<"Ok", row_to_entry(CHOOSE r \in rs : r.id = MaxId(rs))>>

\* Storage::get_by_id: <<"Ok", entry>> or <<"NotFound", id>>
get_by_id(rs, id) ==
    IF \E r \in rs : r.id = id
    THEN <<"Ok", row_to_entry(CHOOSE r \in rs : r.id = id)>>
    ELSE <<"NotFound", id>>

\* Storage::list
list(rs, limit) == MapRows(Take(order_by_created_at_desc(rs), limit))

\* fold that leaves letters as they are (a case-sensitive LIKE).
fold_none(c) == c

\* ASCII case folding of SQLite's LIKE.
fold(c) ==
    CASE c = "A" -> "a"
      [] c = "B" -> "b"
      [] OTHER -> c

\* SQLite's LIKE: % matches any run of characters, _ any one character, ASCII
\* letters match without regard to case.
RECURSIVE like(_, _)
like(p, t) ==
    IF p = << >> THEN t = << >>
    ELSE IF Head(p) = "%"
         THEN \E k \in 0..Len(t) : like(Tail(p), SubSeq(t, k + 1, Len(t)))
         ELSE /\ t # << >>
              /\ (Head(p) = "_" \/ fold(Head(p)) = fold(Head(t)))
              /\ like(Tail(p), Tail(t))

\* WHERE content LIKE ?1: a NULL content matches nothing.
where_content_like(row, pattern) ==
    IsSome(row.content) /\ like(pattern, Unwrap(row.content))

\* Storage::search
search(rs, query, limit) ==
    LET pattern == <<"%">> \o query \o <<"%">>
        hits == {r \in rs : where_content_like(r, pattern)}
    IN MapRows(Take(order_by_created_at_desc(hits), limit))

\* The cutoff of Storage::cleanup_old.
cutoff(t) == t - (RETENTION_HOURS * 3600)

\* expired with <= for <.
expired_at_cutoff(row, t) == row.created_at <= cutoff(t)

\* DELETE FROM entries WHERE created_at < ?1
expired(row, t) == row.created_at < cutoff(t)

\* Storage::cleanup_old: the rows left; the call returns how many went.
cleanup_old(rs, t) == {r \in rs : ~expired(r, t)}

\* clear that deletes nothing.
clear_nothing(rs) == rs

\* Storage::clear: DELETE FROM entries
clear(rs) == {}

\* Storage::count
count(rs) == Cardinality(rs)

----------------------------------------------------------------------------
(* Hotkey configuration: src/src/config.rs *)

\* str::to_lowercase / to_uppercase on the names the model uses.
to_lowercase(name) ==
    CASE name = "Alt" -> "alt"
      [] name = "Shift" -> "shift"
      [] name = "Ctrl" -> "ctrl"
      [] OTHER -> name

to_uppercase(name) ==
    CASE name = "c" -> "C"
      [] name = "x" -> "X"
      [] OTHER -> name

\* parse_modifier (the arms the model's names reach)
parse_modifier(name) ==
    LET n == to_lowercase(name)
    IN CASE n \in {"alt", "left_alt"} -> Some("KEY_LEFTALT")
         [] n \in {"shift", "left_shift"} -> Some("KEY_LEFTSHIFT")
         [] n \in {"ctrl", "control", "left_ctrl"} -> Some("KEY_LEFTCTRL")
         [] OTHER -> None

\* parse_key (the arms the model's names reach)
parse_key(name) ==
    LET n == to_uppercase(name)
    IN CASE n = "C" -> Some("KEY_C")
         [] n = "X" -> Some("KEY_X")
         [] OTHER -> None

\* HotkeyConfig::default
DefaultHotkeyConfig == [modifiers |-> <<"Alt", "Shift">>, key |-> "C"]

\* The key code that stands for a modifier name that resolves to no key.
KEY_RESERVED == "KEY_RESERVED"

\* modifier_keys that keeps a place in the set for a name it cannot resolve.
modifier_keys_keep_unknown(config) ==
    {IF IsSome(parse_modifier(config.modifiers[i]))
     THEN Unwrap(parse_modifier(config.modifiers[i]))
     ELSE KEY_RESERVED : i \in 1..Len(config.modifiers)}

\* HotkeyConfig::modifier_keys: filter_map(|m| parse_modifier(m)).collect()
modifier_keys(config) ==
    {Unwrap(parse_modifier(config.modifiers[i])) :
        i \in {j \in 1..Len(config.modifiers) : IsSome(parse_modifier(config.modifiers[j]))}}

\* HotkeyConfig::trigger_key
trigger_key(config) == parse_key(config.key)

\* The configuration the daemon loaded.
config == [hotkey |-> cfg]

\* What Config::load may return: the default, a combo whose key names no known
\* key, and a combo none of whose modifier names is known.
Configs ==
    {DefaultHotkeyConfig,
     [modifiers |-> <<"Alt", "Shift">>, key |-> "F13"],
     [modifiers |-> <<"Hyper">>, key |-> "c"]}

\* HotkeyListener::new that does not look at the modifier set.
HotkeyListener_new_any_modifiers(c) ==
    IF trigger_key(c) = None
    THEN <<"Err", "invalid trigger key">>
    ELSE <<"Ok", [modifiers |-> modifier_keys(c), trigger_key |-> Unwrap(trigger_key(c))]>>

\* HotkeyListener::new: <<"Ok", listener>> or <<"Err", StickyError::Hotkey>>
HotkeyListener_new(c) ==
    IF trigger_key(c) = None
    THEN <<"Err", "invalid trigger key">>
    ELSE IF modifier_keys(c) = {}
         THEN <<"Err", "no valid modifiers configured">>
         ELSE <<"Ok", [modifiers |-> modifier_keys(c),
                       trigger_key |-> Unwrap(trigger_key(c))]>>

\* The fields of the listener HotkeyListener::new built.
modifiers == modifier_keys(config.hotkey)
the_trigger_key == Unwrap(trigger_key(config.hotkey))

----------------------------------------------------------------------------
(* Inputs *)

PNG_MAGIC == "PNG_MAGIC"    \* stands for the four bytes \x89 P N G

\* Clipboard texts and image payloads. An image payload is a sequence of
\* chunks; Texts are sequences of one-byte characters. "a:b" parses as a URL
\* (scheme a), so it is stored as a Link.
Texts == {<<"a", "b">>, <<"a", ":", "b">>}
Images == {<<PNG_MAGIC, "x">>}
Queries == {<<"a", "b">>, <<"a", "_", "b">>, <<"a", "%", "b">>, <<"B">>}

\* Seconds the clock may advance by in one step.
ClockSteps == {1, RETENTION_HOURS * 3600}

\* The Entries the capture path can create at time t.
NewEntries(t) ==
    {new_text(x, t) : x \in Texts} \cup {new_image(d, t) : d \in Images}

NoCall == [op |-> "none", arg |-> << >>, val |-> << >>, before |-> {}, at |-> 0,
           issued |-> 0]
NoEvent == [kind |-> "none", outcome |-> "none", hash |-> << >>]
NoKey == [key |-> "none", is_press |-> FALSE, fired |-> FALSE]

\* #[derive(Default)] struct PopupState: no popup process is modelled.
PopupState_default == [search |-> << >>, entries |-> << >>, filtered |-> << >>, selected |-> 0]

Devices == {"kbd0", "kbd1"}

Init ==
    /\ now = 0
    /\ ticks = 0
    /\ rows = {}
    /\ ret = NoCall
    /\ issued = 0
    /\ log = << >>
    /\ clip = [kind |-> "empty", data |-> << >>]
    /\ pc = "new"
    /\ last_hash = None
    /\ pid_file = TRUE
    /\ cfg = DefaultHotkeyConfig
    /\ ctrl_c = FALSE
    /\ sigint = FALSE
    /\ hotkey_ch = 0
    /\ popups = 0
    /\ ev = NoEvent
    /\ lpc = "none"
    /\ pressed = {}
    /\ event_ch = << >>
    /\ dev = [d \in Devices |-> "running"]
    /\ fired = 0
    /\ kev = NoKey
    /\ keys_down = [d \in Devices |-> {}]
    /\ popup_state = PopupState_default

\* The clock advances.
Tick ==
    /\ ticks < MaxTicks
    /\ \E d \in ClockSteps : now' = now + d
    /\ ticks' = ticks + 1

----------------------------------------------------------------------------
(* StorageSpec: the Storage API called directly *)

Called(op, arg, val) ==
    ret' = [op |-> op, arg |-> arg, val |-> val, before |-> rows, at |-> now,
            issued |-> issued]

\* The bookkeeping of the model: the largest id returned, the insertion order.
Max(a, b) == IF a > b THEN a ELSE b
Live(l, rs) == SelectSeq(l, LAMBDA i : \E r \in rs : r.id = i)
Inserted(id) ==
    /\ issued' = Max(issued, id)
    /\ log' = Append(log, id)
Deleted == log' = Live(log, rows')

\* Storage::insert of an Entry created now
StorageInsert ==
    /\ Cardinality(rows) < MaxRows
    /\ \E e \in NewEntries(now) :
          /\ rows' = insert(rows, e)
          /\ Inserted(insert_row(rows, e).id)
          /\ Called("insert", e, insert_row(rows, e).id)
    /\ UNCHANGED <<now, ticks>>

\* Storage::cleanup_old
StorageCleanupOld ==
    /\ rows' = cleanup_old(rows, now)
    /\ Called("cleanup_old", << >>, count(rows) - count(cleanup_old(rows, now)))
    /\ Deleted
    /\ UNCHANGED <<now, ticks, issued>>

\* Storage::clear
StorageClear ==
    /\ rows' = clear(rows)
    /\ Called("clear", << >>, count(rows))
    /\ Deleted
    /\ UNCHANGED <<now, ticks, issued>>

\* Storage::list
StorageList ==
    /\ \E limit \in 1..MaxRows : Called("list", limit, list(rows, limit))
    /\ UNCHANGED <<now, ticks, rows, issued, log>>

\* Storage::search
StorageSearch ==
    /\ \E q \in Queries, limit \in 1..MaxRows :
          Called("search", <<q, limit>>, search(rows, q, limit))
    /\ UNCHANGED <<now, ticks, rows, issued, log>>

\* Storage::get_by_id
StorageGetById ==
    /\ \E id \in 1..(MaxRows + 1) : Called("get_by_id", id, get_by_id(rows, id))
    /\ UNCHANGED <<now, ticks, rows, issued, log>>

\* Storage::get_latest_hash
StorageGetLatestHash ==
    /\ Called("get_latest_hash", << >>, get_latest_hash(rows))
    /\ UNCHANGED <<now, ticks, rows, issued, log>>

\* Storage::count
StorageCount ==
    /\ Called("count", << >>, count(rows))
    /\ UNCHANGED <<now, ticks, rows, issued, log>>

StorageTick == Tick /\ UNCHANGED <<rows, ret, popup_state, issued, log>>

StorageNext ==
    \/ (StorageTick /\ UNCHANGED <<daemonVars, hotkeyVars, popupVars>>)
    \/ (StorageInsert /\ UNCHANGED <<daemonVars, hotkeyVars, popupVars>>)
    \/ (StorageCleanupOld /\ UNCHANGED <<daemonVars, hotkeyVars, popupVars>>)
    \/ (StorageClear /\ UNCHANGED <<daemonVars, hotkeyVars, popupVars>>)
    \/ (StorageList /\ UNCHANGED <<daemonVars, hotkeyVars, popupVars>>)
    \/ (StorageSearch /\ UNCHANGED <<daemonVars, hotkeyVars, popupVars>>)
    \/ (StorageGetById /\ UNCHANGED <<daemonVars, hotkeyVars, popupVars>>)
    \/ (StorageGetLatestHash /\ UNCHANGED <<daemonVars, hotkeyVars, popupVars>>)
    \/ (StorageCount /\ UNCHANGED <<daemonVars, hotkeyVars, popupVars>>)

StorageSpec == Init /\ [][StorageNext]_vars

----------------------------------------------------------------------------
(* ForeignSpec: the Storage API on a database file that holds a row the     *)
(* program did not write: its content-type tag is none of text/link/image. *)

\* Rows with an unknown tag: one with a content, one with image data.
ForeignRows ==
    {[id |-> 1, content_type |-> "file", content |-> Some(<<"a", "b">>),
      image_data |-> None, hash |-> hash_content(<<"a", "b">>), created_at |-> 0],
     [id |-> 1, content_type |-> "TEXT", content |-> None,
      image_data |-> Some(<<PNG_MAGIC, "x">>),
      hash |-> hash_content(<<PNG_MAGIC, "x">>), created_at |-> 0]}

\* Storage::open of such a file (CREATE TABLE IF NOT EXISTS keeps the rows).
ForeignInit ==
    /\ now = 0
    /\ ticks = 0
    /\ rows \in {{r} : r \in ForeignRows}
    /\ ret = NoCall
    /\ issued = 1
    /\ log = <<1>>
    /\ clip = [kind |-> "empty", data |-> << >>]
    /\ pc = "new"
    /\ last_hash = None
    /\ pid_file = TRUE
    /\ cfg = DefaultHotkeyConfig
    /\ ctrl_c = FALSE
    /\ sigint = FALSE
    /\ hotkey_ch = 0
    /\ popups = 0
    /\ ev = NoEvent
    /\ lpc = "none"
    /\ pressed = {}
    /\ event_ch = << >>
    /\ dev = [d \in Devices |-> "running"]
    /\ fired = 0
    /\ kev = NoKey
    /\ keys_down = [d \in Devices |-> {}]
    /\ popup_state = PopupState_default

ForeignSpec == ForeignInit /\ [][StorageNext]_vars

----------------------------------------------------------------------------
(* Hotkey listener: src/src/hotkey/listener.rs *)

\* The key codes the devices emit.
Keys == {"KEY_LEFTALT", "KEY_LEFTSHIFT", "KEY_C", "KEY_X"}

\* The combo test that matches a key only against the modifiers being down,
\* whatever the key.
combo_matched_any_key(key, is_press, held) ==
    /\ is_press
    /\ \A m \in modifiers : m \in held

\* The combo test that asks whether the trigger is down, not whether the event
\* is its press.
combo_matched_trigger_held(key, is_press, held) ==
    /\ the_trigger_key \in held
    /\ is_press
    /\ \A m \in modifiers : m \in held

\* listen: key == self.trigger_key && is_press
\*           && self.modifiers.iter().all(|m| pressed.contains(m))
combo_matched(key, is_press, held) ==
    /\ key = the_trigger_key
    /\ is_press
    /\ \A m \in modifiers : m \in held

\* A pressed set that forgets no key: a release is ignored.
update_pressed_never_released(held, key, is_press) ==
    IF is_press THEN held \cup {key} ELSE held

\* listen: the pressed set after an event
update_pressed(held, key, is_press) ==
    IF is_press THEN held \cup {key} ELSE held \ {key}

\* The merged channel holds up to EVENT_CHANNEL_CAP events, of which the model
\* lets at most MaxEvents wait.
event_capacity == Min(EVENT_CHANNEL_CAP, MaxEvents)

\* A send that never waits: a message for a full channel is dropped.
has_room_or_drops(n, cap) == TRUE

\* mpsc::Sender::send(..).await completes only when the channel has room for
\* the message; until then the sender waits.
has_room(n, cap) == n < cap

\* The messages in a channel of capacity cap that held n after a send.
after_send(n, cap) == Min(n + 1, cap)

\* Daemon::run: tokio::spawn of the task that calls listen.
ListenSpawn ==
    /\ lpc = "none"
    /\ lpc' = "start"
    /\ UNCHANGED <<pressed, event_ch, dev, fired, kev, keys_down, hotkey_ch>>

\* listen: find_keyboards()? and the test for no devices. When keyboards were
\* found one task per device is spawned; when find_keyboards fails ("err") or
\* finds none ("empty") listen returns the error, the task prints it and ends.
ListenStart ==
    /\ lpc = "start"
    /\ \E found \in {"devices", "empty", "err"} :
          lpc' = IF found = "devices" THEN "recv" ELSE "failed"
    /\ UNCHANGED <<pressed, event_ch, dev, fired, kev, keys_down, hotkey_ch>>

\* listen_device: a key event with value 1 (press) or 0 (release) is sent into
\* the merged channel (the send waits while the channel is full); a repeat
\* (value 2) is dropped.
DeviceEvent ==
    /\ lpc \in {"recv", "send"}
    /\ fired < MaxFired
    /\ \E d \in Devices, key \in Keys, value \in {0, 1, 2} :
          /\ dev[d] = "running"
          /\ IF value = 1 \/ value = 0
             THEN /\ Len(event_ch) < event_capacity
                  /\ event_ch' = Append(event_ch, <<key, value = 1>>)
             ELSE UNCHANGED event_ch
    /\ UNCHANGED <<lpc, pressed, dev, fired, kev, keys_down, hotkey_ch>>

\* A device error that ends every device task.
device_task_end_all(tasks, d) == [x \in DOMAIN tasks |-> "ended"]

\* listen: the task spawned for a device prints the error listen_device
\* returned and ends; the tasks of the other devices are not touched.
device_task_end(tasks, d) == [tasks EXCEPT ![d] = "ended"]

\* listen_device: next_event fails, the task logs and ends.
DeviceError ==
    /\ lpc \in {"recv", "send"}
    /\ \E d \in Devices :
          /\ dev[d] = "running"
          /\ dev' = device_task_end(dev, d)
    /\ UNCHANGED <<lpc, pressed, event_ch, fired, kev, keys_down, hotkey_ch>>

\* listen: one turn of while let Some((key, is_press)) = event_rx.recv().await
ListenRecv ==
    /\ lpc = "recv"
    /\ event_ch # << >>
    /\ LET key == Head(event_ch)[1]
           is_press == Head(event_ch)[2]
           held == update_pressed(pressed, key, is_press)
           hit == combo_matched(key, is_press, held)
       IN /\ pressed' = held
          /\ event_ch' = Tail(event_ch)
          /\ kev' = [key |-> key, is_press |-> is_press, fired |-> hit]
          /\ fired' = IF hit THEN fired + 1 ELSE fired
          /\ lpc' = IF hit THEN "send" ELSE "recv"
    /\ UNCHANGED <<dev, keys_down, hotkey_ch>>

\* listen: tx.send(()).await completes when the hotkey channel has room.
ListenSend ==
    /\ lpc = "send"
    /\ has_room(hotkey_ch, HOTKEY_CHANNEL_CAP)
    /\ hotkey_ch' = after_send(hotkey_ch, HOTKEY_CHANNEL_CAP)
    /\ lpc' = "recv"
    /\ UNCHANGED <<pressed, event_ch, dev, fired, kev, keys_down>>

\* listen: every device task has ended and the channel is drained: recv()
\* returns None and listen returns Ok(()).
ListenClosed ==
    /\ lpc = "recv"
    /\ event_ch = << >>
    /\ \A d \in Devices : dev[d] = "ended"
    /\ lpc' = "done"
    /\ UNCHANGED <<pressed, event_ch, dev, fired, kev, keys_down, hotkey_ch>>

\* Daemon::run: Some(()) = hotkey_rx.recv() takes a signal out of the channel
\* and calls spawn_popup.
HotkeyTaken ==
    /\ hotkey_ch > 0
    /\ hotkey_ch' = hotkey_ch - 1
    /\ popups' = popups + 1
    /\ UNCHANGED <<lpc, pressed, event_ch, dev, fired, kev, keys_down>>

hotkeyRest == <<clip, pc, last_hash, pid_file, cfg, ctrl_c, sigint, ev>>

HotkeyNext ==
    \/ (ListenSpawn /\ UNCHANGED <<storeVars, popupVars, hotkeyRest, popups>>)
    \/ (ListenStart /\ UNCHANGED <<storeVars, popupVars, hotkeyRest, popups>>)
    \/ (DeviceEvent /\ UNCHANGED <<storeVars, popupVars, hotkeyRest, popups>>)
    \/ (DeviceError /\ UNCHANGED <<storeVars, popupVars, hotkeyRest, popups>>)
    \/ (ListenRecv /\ UNCHANGED <<storeVars, popupVars, hotkeyRest, popups>>)
    \/ (ListenSend /\ UNCHANGED <<storeVars, popupVars, hotkeyRest, popups>>)
    \/ (ListenClosed /\ UNCHANGED <<storeVars, popupVars, hotkeyRest, popups>>)
    \/ (HotkeyTaken /\ UNCHANGED <<storeVars, popupVars, hotkeyRest>>)

HotkeySpec == Init /\ [][HotkeyNext]_vars

----------------------------------------------------------------------------
(* MergeSpec: the listener fed by keyboards whose keys go down and up: a     *)
(* device reports a press of a key that is up on it, and a release or a     *)
(* repeat of a key that is down on it.                                      *)

\* The keys of the combo.
ComboKeys == modifiers \cup {the_trigger_key}

\* The keys down on a device after it reported value for key.
device_keys(down, key, value) ==
    CASE value = 1 -> down \cup {key}
      [] value = 0 -> down \ {key}
      [] OTHER -> down

\* listen_device on such a keyboard: a press (1) or release (0) is sent into
\* the merged channel, without the device it came from; a repeat (2) is dropped.
DeviceKey ==
    /\ lpc \in {"recv", "send"}
    /\ fired < MaxFired
    /\ \E d \in Devices, key \in ComboKeys, value \in {0, 1, 2} :
          /\ dev[d] = "running"
          /\ value = 1 => key \notin keys_down[d]
          /\ value \in {0, 2} => key \in keys_down[d]
          /\ keys_down' = [keys_down EXCEPT ![d] = device_keys(keys_down[d], key, value)]
          /\ IF value = 1 \/ value = 0
             THEN /\ Len(event_ch) < event_capacity
                  /\ event_ch' = Append(event_ch, <<key, value = 1>>)
             ELSE UNCHANGED event_ch
    /\ UNCHANGED <<lpc, pressed, dev, fired, kev, hotkey_ch>>

MergeNext ==
    \/ (ListenSpawn /\ UNCHANGED <<storeVars, popupVars, hotkeyRest, popups>>)
    \/ (ListenStart /\ UNCHANGED <<storeVars, popupVars, hotkeyRest, popups>>)
    \/ (DeviceKey /\ UNCHANGED <<storeVars, popupVars, hotkeyRest, popups>>)
    \/ (ListenRecv /\ UNCHANGED <<storeVars, popupVars, hotkeyRest, popups>>)
    \/ (ListenSend /\ UNCHANGED <<storeVars, popupVars, hotkeyRest, popups>>)
    \/ (HotkeyTaken /\ UNCHANGED <<storeVars, popupVars, hotkeyRest>>)

MergeSpec == Init /\ [][MergeNext]_vars

\* The tasks are scheduled: the listener completes a send once the hotkey
\* channel has room, and the loop of run takes the signals out of it.
FairMergeSpec ==
    /\ MergeSpec
    /\ WF_vars(ListenSend /\ UNCHANGED <<storeVars, popupVars, hotkeyRest, popups>>)
    /\ WF_vars(HotkeyTaken /\ UNCHANGED <<storeVars, popupVars, hotkeyRest>>)

----------------------------------------------------------------------------
(* PartialSpec: the listener built from a configuration one of whose         *)
(* modifier names resolves to no key.                                       *)

\* A configuration file with modifiers ["Alt", "Hyper"] and key "C".
PartialHotkeyConfig == [modifiers |-> <<"Alt", "Hyper">>, key |-> "C"]

PartialInit ==
    /\ now = 0
    /\ ticks = 0
    /\ rows = {}
    /\ ret = NoCall
    /\ issued = 0
    /\ log = << >>
    /\ clip = [kind |-> "empty", data |-> << >>]
    /\ pc = "new"
    /\ last_hash = None
    /\ pid_file = TRUE
    /\ cfg = PartialHotkeyConfig
    /\ ctrl_c = FALSE
    /\ sigint = FALSE
    /\ hotkey_ch = 0
    /\ popups = 0
    /\ ev = NoEvent
    /\ lpc = "none"
    /\ pressed = {}
    /\ event_ch = << >>
    /\ dev = [d \in Devices |-> "running"]
    /\ fired = 0
    /\ kev = NoKey
    /\ keys_down = [d \in Devices |-> {}]
    /\ popup_state = PopupState_default

PartialSpec == PartialInit /\ [][HotkeyNext]_vars

----------------------------------------------------------------------------
(* Clipboard adapter: src/src/clipboard.rs *)

\* Bytes a chunk of a payload stands for.
chunk_len(c) ==
    CASE c = PNG_MAGIC -> 4
      [] c = "5MiB-4" -> MAX_IMAGE_SIZE_BYTES - 4
      [] OTHER -> 1

\* out.stdout.len()
RECURSIVE byte_len(_)
byte_len(data) ==
    IF data = << >> THEN 0 ELSE chunk_len(Head(data)) + byte_len(Tail(data))

\* validate_png: at least four bytes, the first four the PNG magic
validate_png(data) == byte_len(data) >= 4 /\ Head(data) = PNG_MAGIC

\* What the clipboard may hold: nothing, a text, or image/png data (small, too
\* large, or not a PNG).
ClipTexts == {<<"a", "b">>}
ClipImages == {<<PNG_MAGIC, "x">>, <<PNG_MAGIC, "5MiB-4", "x">>, <<"x", "x", "x", "x">>}
ClipValues ==
    {[kind |-> "empty", data |-> << >>]}
        \cup {[kind |-> "text", data |-> x] : x \in ClipTexts}
        \cup {[kind |-> "image", data |-> d] : d \in ClipImages}

\* read (read_wayland / read_x11): the image is tried first, then the text.
\* <<"Ok", ClipboardContent>> or <<"Err", error>>.
read(c) ==
    IF c.kind = "image" /\ c.data # << >>
    THEN IF byte_len(c.data) > MAX_IMAGE_SIZE_BYTES
         THEN <<"Err", "ImageTooLarge">>
         ELSE IF ~validate_png(c.data)
              THEN <<"Err", "InvalidImage">>
              ELSE <<"Ok", [kind |-> "Image", data |-> c.data]>>
    ELSE IF c.kind = "text" /\ c.data # << >>
         THEN <<"Ok", [kind |-> "Text", data |-> c.data]>>
         ELSE <<"Ok", [kind |-> "Empty", data |-> << >>]>>

\* read_as_entry: <<"Ok", Option<Entry>>> or <<"Err", error>>
read_as_entry(c, t) ==
    LET r == read(c)
    IN IF r[1] = "Err" THEN r
       ELSE CASE r[2].kind = "Text" -> <<"Ok", Some(new_text(r[2].data, t))>>
              [] r[2].kind = "Image" -> <<"Ok", Some(new_image(r[2].data, t))>>
              [] r[2].kind = "Empty" -> <<"Ok", None>>

----------------------------------------------------------------------------
(* Entry::display_preview: src/src/entry.rs, checked under PreviewSpec *)

E_ACUTE == "e_acute"    \* stands for the character e with an acute accent

\* char::len_utf8: the bytes of a character in UTF-8.
len_utf8(c) == IF c = E_ACUTE THEN 2 ELSE 1

\* str::len: the length of a string in bytes.
RECURSIVE str_len(_)
str_len(t) == IF t = << >> THEN 0 ELSE len_utf8(Head(t)) + str_len(Tail(t))

\* str::split_whitespace: the runs of characters that are not whitespace.
RECURSIVE split_whitespace(_)
split_whitespace(t) ==
    LET s == trim_start(t)
    IN IF s = << >> THEN << >>
       ELSE LET stops == {i \in 1..Len(s) : s[i] \in Whitespace}
                n == IF stops = {} THEN Len(s) + 1
                     ELSE CHOOSE i \in stops : \A j \in stops : i <= j
            IN <<SubSeq(s, 1, n - 1)>> \o split_whitespace(SubSeq(s, n, Len(s)))

\* [&str]::join
RECURSIVE join(_, _)
join(words, sep) ==
    IF words = << >> THEN << >>
    ELSE IF Len(words) = 1 THEN words[1]
    ELSE words[1] \o sep \o join(Tail(words), sep)

\* display_preview: text.split_whitespace().collect::<Vec<_>>().join(" ")
collapsed(text) == join(split_whitespace(text), <<" ">>)

ELLIPSIS == <<".", ".", ".">>

\* Entry::display_preview. The test for truncation compares the length in
\* bytes (collapsed.len()) with max_len; chars().take(max_len) counts
\* characters.
display_preview(e, max_len) ==
    IF e.content_type \in {"Text", "Link"}
    THEN LET text == IF IsSome(e.content) THEN Unwrap(e.content) ELSE << >>
         IN IF str_len(collapsed(text)) > max_len
            THEN Take(collapsed(text), max_len) \o ELLIPSIS
            ELSE collapsed(text)
    ELSE <<"[Image: ",
           IF IsSome(e.image_data) THEN byte_len(Unwrap(e.image_data)) ELSE 0,
           " bytes]">>

\* The texts handed to display_preview: up to MaxPreviewChars characters, one
\* of them two bytes long, and two kinds of whitespace.
PreviewChars == {"a", E_ACUTE, " ", "\n"}
PreviewTexts == UNION {[1..n -> PreviewChars] : n \in 0..MaxPreviewChars}
PreviewLens == 0..MaxPreviewLen

\* display_preview of a text Entry (main.rs list, the popup)
PreviewText ==
    /\ \E x \in PreviewTexts, max_len \in PreviewLens :
          Called("display_preview", <<new_text(x, now), max_len>>,
                 display_preview(new_text(x, now), max_len))
    /\ UNCHANGED <<now, ticks, rows, issued, log>>

\* display_preview of an image Entry
PreviewImage ==
    /\ \E data \in ClipImages, max_len \in PreviewLens :
          Called("display_preview", <<new_image(data, now), max_len>>,
                 display_preview(new_image(data, now), max_len))
    /\ UNCHANGED <<now, ticks, rows, issued, log>>

PreviewNext ==
    \/ (PreviewText /\ UNCHANGED <<daemonVars, hotkeyVars, popupVars>>)
    \/ (PreviewImage /\ UNCHANGED <<daemonVars, hotkeyVars, popupVars>>)

PreviewSpec == Init /\ [][PreviewNext]_vars

\* C26: the preview of a text or link Entry is its whitespace-collapsed
\* content when that has at most max_len characters, and otherwise its first
\* max_len characters followed by "..."; characters are counted, not bytes.
C26_PreviewCountsCharacters ==
    (ret.op = "display_preview" /\ ret.arg[1].content_type \in {"Text", "Link"}) =>
        LET c == collapsed(Unwrap(ret.arg[1].content))
            n == ret.arg[2]
        IN /\ Len(c) <= n => ret.val = c
           /\ Len(c) > n => ret.val = Take(c, n) \o ELLIPSIS /\ Len(ret.val) = n + 3

----------------------------------------------------------------------------
(* Popup: src/src/gui/popup.rs, checked under PopupSpec. Confirm, Cancel,   *)
(* Enter and Escape end the process; they are not modelled.                 *)

\* char::to_lowercase on the characters the model uses.
char_to_lowercase(c) ==
    CASE c = "A" -> "a"
      [] c = "B" -> "b"
      [] OTHER -> c

\* str::to_lowercase
text_to_lowercase(t) == [i \in 1..Len(t) |-> char_to_lowercase(t[i])]

\* str::contains(&query)
str_contains(t, query) ==
    \E k \in 0..(Len(t) - Len(query)) : SubSeq(t, k + 1, k + Len(query)) = query

\* (0..n).collect(): the indices 0 .. n-1 in order
Indices(n) == [i \in 1..n |-> i - 1]

\* filter_entries: the closure handed to filter
matches(e, query) ==
    IF IsSome(e.content)
    THEN str_contains(text_to_lowercase(Unwrap(e.content)), query)
    ELSE FALSE

\* PopupState::new: the entries come from Storage::open().and_then(|s|
\* s.list(MAX_ENTRIES)).unwrap_or_default()
PopupState_new(rs, open_ok) ==
    LET entries == IF open_ok THEN list(rs, MAX_ENTRIES) ELSE << >>
    IN [search |-> << >>,
        entries |-> entries,
        filtered |-> Indices(Len(entries)),
        selected |-> 0]

\* The indices filter_entries computes for the search text of st.
filtered_indices(st) ==
    IF st.search = << >>
    THEN Indices(Len(st.entries))
    ELSE SelectSeq(Indices(Len(st.entries)),
                   LAMBDA i : matches(st.entries[i + 1], text_to_lowercase(st.search)))

\* filter_entries that leaves the selection where it was.
filter_entries_keeps_selected(st) ==
    [st EXCEPT !.filtered = filtered_indices(st)]

\* PopupState::filter_entries
filter_entries(st) ==
    [st EXCEPT !.filtered = filtered_indices(st), !.selected = 0]

\* update, Message::SelectNext (and handle_key, ArrowDown)
select_next(st) ==
    IF st.filtered # << >> /\ st.selected < Len(st.filtered) - 1
    THEN [st EXCEPT !.selected = @ + 1]
    ELSE st

\* update, Message::SelectPrev (and handle_key, ArrowUp)
select_prev(st) ==
    IF st.selected > 0
    THEN [st EXCEPT !.selected = @ - 1]
    ELSE st

\* handle_key
handle_key(st, key) ==
    CASE key = "ArrowDown" -> select_next(st)
      [] key = "ArrowUp" -> select_prev(st)
      [] OTHER -> st

\* update
update(st, message) ==
    CASE message.kind = "SearchChanged" -> filter_entries([st EXCEPT !.search = message.arg])
      [] message.kind = "SelectNext" -> select_next(st)
      [] message.kind = "SelectPrev" -> select_prev(st)
      [] message.kind = "KeyPressed" -> handle_key(st, message.arg)
      [] OTHER -> st

\* PopupState::selected_entry
selected_entry(st) ==
    IF st.selected < Len(st.filtered) /\ st.filtered[st.selected + 1] < Len(st.entries)
    THEN Some(st.entries[st.filtered[st.selected + 1] + 1])
    ELSE None

\* view: the rows of the list, each an Entry and whether it is the selected
\* one; state.entries[entry_idx] panics on an index past the end.
view(st) ==
    IF \E i \in 1..Len(st.filtered) : st.filtered[i] >= Len(st.entries)
    THEN [panic |-> TRUE, items |-> << >>]
    ELSE [panic |-> FALSE,
          items |-> [i \in 1..Len(st.filtered) |->
                       [entry |-> st.entries[st.filtered[i] + 1],
                        is_selected |-> i - 1 = st.selected]]]

\* What the user may type into the search box.
PopupQueries == {<< >>, <<"a">>, <<"A", "b">>, <<"b">>, <<"x">>}

\* The Entries of the stores the popup may find.
PopupTexts == {<<"a", "b">>, <<"A">>, <<"b">>}
PopupEntries == {new_text(x, 0) : x \in PopupTexts} \cup {new_image(d, 0) : d \in Images}

\* The stores that n inserts build.
RECURSIVE PopupStores(_)
PopupStores(n) ==
    IF n = 0
    THEN {{}}
    ELSE PopupStores(n - 1)
            \cup {insert(rs, e) : rs \in {x \in PopupStores(n - 1) : Cardinality(x) = n - 1},
                                   e \in PopupEntries}

\* The popup process starts on a store with up to MaxPopupEntries Entries.
PopupInit ==
    /\ now = 0
    /\ ticks = 0
    /\ rows \in PopupStores(MaxPopupEntries)
    /\ ret = NoCall
    /\ issued = Cardinality(rows)
    /\ log = [i \in 1..Cardinality(rows) |-> i]
    /\ clip = [kind |-> "empty", data |-> << >>]
    /\ pc = "new"
    /\ last_hash = None
    /\ pid_file = TRUE
    /\ cfg = DefaultHotkeyConfig
    /\ ctrl_c = FALSE
    /\ sigint = FALSE
    /\ hotkey_ch = 0
    /\ popups = 0
    /\ ev = NoEvent
    /\ lpc = "none"
    /\ pressed = {}
    /\ event_ch = << >>
    /\ dev = [d \in Devices |-> "running"]
    /\ fired = 0
    /\ kev = NoKey
    /\ keys_down = [d \in Devices |-> {}]
    /\ \E open_ok \in BOOLEAN : popup_state = PopupState_new(rows, open_ok)

\* update: Message::SearchChanged(query)
PopupSearchChanged ==
    \E query \in PopupQueries :
        popup_state' = update(popup_state, [kind |-> "SearchChanged", arg |-> query])

\* update: Message::SelectNext
PopupSelectNext ==
    popup_state' = update(popup_state, [kind |-> "SelectNext", arg |-> << >>])

\* update: Message::SelectPrev
PopupSelectPrev ==
    popup_state' = update(popup_state, [kind |-> "SelectPrev", arg |-> << >>])

\* update: Message::IcedEvent of a key press, handled by handle_key
PopupKeyPressed ==
    \E key \in {"ArrowDown", "ArrowUp", "Tab"} :
        popup_state' = update(popup_state, [kind |-> "KeyPressed", arg |-> key])

PopupNext ==
    \/ (PopupSearchChanged /\ UNCHANGED <<storeVars, daemonVars, hotkeyVars>>)
    \/ (PopupSelectNext /\ UNCHANGED <<storeVars, daemonVars, hotkeyVars>>)
    \/ (PopupSelectPrev /\ UNCHANGED <<storeVars, daemonVars, hotkeyVars>>)
    \/ (PopupKeyPressed /\ UNCHANGED <<storeVars, daemonVars, hotkeyVars>>)

PopupSpec == PopupInit /\ [][PopupNext]_vars

----------------------------------------------------------------------------
(* Daemon: src/src/daemon.rs *)

\* Daemon::new that starts with no last-seen fingerprint.
seed_last_hash_none(rs) == None

\* Daemon::new: let last_hash = storage.get_latest_hash()?
seed_last_hash(rs) == get_latest_hash(rs)

\* poll_clipboard that skips no read error.
is_skipped_error_never(err) == FALSE

\* poll_clipboard: Err(StickyError::ImageTooLarge { .. }) => return Ok(())
is_skipped_error(err) == err = "ImageTooLarge"

\* The dedup test that never finds a duplicate.
is_duplicate_never(lh, entry) == FALSE

\* poll_clipboard: self.last_hash.as_ref() == Some(&entry.hash)
is_duplicate(lh, entry) == lh = Some(entry.hash)

\* The eviction of a poll that is left out.
poll_cleanup_old_skipped(rs, t) == rs

\* poll_clipboard: self.storage.cleanup_old()? after the insert
poll_cleanup_old(rs, t) == cleanup_old(rs, t)

\* poll_clipboard that evicts also when it skips a duplicate.
poll_clipboard_evicts_every_poll(rs, lh, c, t, insert_ok, cleanup_ok) ==
    LET r == read_as_entry(c, t)
        same == [rows |-> rs, last_hash |-> lh]
    IN IF r[1] = "Err"
       THEN IF is_skipped_error(r[2])
            THEN same @@ [outcome |-> "too_large", result |-> "Ok"]
            ELSE same @@ [outcome |-> "read_err", result |-> "Err"]
       ELSE IF r[2] = None
       THEN same @@ [outcome |-> "empty", result |-> "Ok"]
       ELSE LET entry == Unwrap(r[2])
            IN IF is_duplicate(lh, entry)
               THEN [rows |-> poll_cleanup_old(rs, t), last_hash |-> lh,
                     outcome |-> "dup", result |-> "Ok"]
               ELSE IF ~insert_ok
               THEN same @@ [outcome |-> "insert_err", result |-> "Err"]
               ELSE IF ~cleanup_ok
               THEN [rows |-> insert(rs, entry), last_hash |-> Some(entry.hash),
                     outcome |-> "cleanup_err", result |-> "Err"]
               ELSE [rows |-> poll_cleanup_old(insert(rs, entry), t),
                     last_hash |-> Some(entry.hash),
                     outcome |-> "inserted", result |-> "Ok"]

\* poll_clipboard that compares the candidate with the newest stored Entry
\* instead of the fingerprint it remembers.
poll_clipboard_dedup_by_store(rs, lh, c, t, insert_ok, cleanup_ok) ==
    LET r == read_as_entry(c, t)
        same == [rows |-> rs, last_hash |-> lh]
    IN IF r[1] = "Err"
       THEN IF is_skipped_error(r[2])
            THEN same @@ [outcome |-> "too_large", result |-> "Ok"]
            ELSE same @@ [outcome |-> "read_err", result |-> "Err"]
       ELSE IF r[2] = None
       THEN same @@ [outcome |-> "empty", result |-> "Ok"]
       ELSE LET entry == Unwrap(r[2])
            IN IF is_duplicate(get_latest_hash(rs), entry)
               THEN same @@ [outcome |-> "dup", result |-> "Ok"]
               ELSE IF ~insert_ok
               THEN same @@ [outcome |-> "insert_err", result |-> "Err"]
               ELSE IF ~cleanup_ok
               THEN [rows |-> insert(rs, entry), last_hash |-> Some(entry.hash),
                     outcome |-> "cleanup_err", result |-> "Err"]
               ELSE [rows |-> poll_cleanup_old(insert(rs, entry), t),
                     last_hash |-> Some(entry.hash),
                     outcome |-> "inserted", result |-> "Ok"]

\* poll_clipboard that records the fingerprint before it inserts.
poll_clipboard_hash_before_insert(rs, lh, c, t, insert_ok, cleanup_ok) ==
    LET r == read_as_entry(c, t)
        same == [rows |-> rs, last_hash |-> lh]
    IN IF r[1] = "Err"
       THEN IF is_skipped_error(r[2])
            THEN same @@ [outcome |-> "too_large", result |-> "Ok"]
            ELSE same @@ [outcome |-> "read_err", result |-> "Err"]
       ELSE IF r[2] = None
       THEN same @@ [outcome |-> "empty", result |-> "Ok"]
       ELSE LET entry == Unwrap(r[2])
            IN IF is_duplicate(lh, entry)
               THEN same @@ [outcome |-> "dup", result |-> "Ok"]
               ELSE IF ~insert_ok
               THEN [rows |-> rs, last_hash |-> Some(entry.hash),
                     outcome |-> "insert_err", result |-> "Err"]
               ELSE IF ~cleanup_ok
               THEN [rows |-> insert(rs, entry), last_hash |-> Some(entry.hash),
                     outcome |-> "cleanup_err", result |-> "Err"]
               ELSE [rows |-> poll_cleanup_old(insert(rs, entry), t),
                     last_hash |-> Some(entry.hash),
                     outcome |-> "inserted", result |-> "Ok"]

\* poll_clipboard that is cut short between the insert and the update of
\* last_hash.
poll_clipboard_cut_short(rs, lh, c, t, insert_ok, cleanup_ok) ==
    LET r == read_as_entry(c, t)
        same == [rows |-> rs, last_hash |-> lh]
    IN IF r[1] = "Err"
       THEN IF is_skipped_error(r[2])
            THEN same @@ [outcome |-> "too_large", result |-> "Ok"]
            ELSE same @@ [outcome |-> "read_err", result |-> "Err"]
       ELSE IF r[2] = None
       THEN same @@ [outcome |-> "empty", result |-> "Ok"]
       ELSE LET entry == Unwrap(r[2])
            IN IF is_duplicate(lh, entry)
               THEN same @@ [outcome |-> "dup", result |-> "Ok"]
               ELSE IF ~insert_ok
               THEN same @@ [outcome |-> "insert_err", result |-> "Err"]
               ELSE [rows |-> insert(rs, entry), last_hash |-> lh,
                     outcome |-> "inserted", result |-> "Ok"]

\* What one poll_clipboard call does to the store and to last_hash, and what it
\* returns. insert_ok and cleanup_ok say whether the two storage calls succeed.
\* outcome: "empty", "too_large", "read_err", "dup", "insert_err",
\*          "inserted", "cleanup_err"
poll_clipboard(rs, lh, c, t, insert_ok, cleanup_ok) ==
    LET r == read_as_entry(c, t)
        same == [rows |-> rs, last_hash |-> lh]
    IN IF r[1] = "Err"
       THEN IF is_skipped_error(r[2])
            THEN same @@ [outcome |-> "too_large", result |-> "Ok"]
            ELSE same @@ [outcome |-> "read_err", result |-> "Err"]
       ELSE IF r[2] = None
       THEN same @@ [outcome |-> "empty", result |-> "Ok"]
       ELSE LET entry == Unwrap(r[2])
            IN IF is_duplicate(lh, entry)
               THEN same @@ [outcome |-> "dup", result |-> "Ok"]
               ELSE IF ~insert_ok
               THEN same @@ [outcome |-> "insert_err", result |-> "Err"]
               ELSE IF ~cleanup_ok
               THEN [rows |-> insert(rs, entry), last_hash |-> Some(entry.hash),
                     outcome |-> "cleanup_err", result |-> "Err"]
               ELSE [rows |-> poll_cleanup_old(insert(rs, entry), t),
                     last_hash |-> Some(entry.hash),
                     outcome |-> "inserted", result |-> "Ok"]

\* run with a poll error that ends the loop.
after_poll_stop_on_error(result) == IF result = "Err" THEN "failed" ELSE "select"

\* run: if let Err(e) = self.poll_clipboard() { eprintln!(..) }: the loop goes
\* on whatever the poll returned.
after_poll(result) == "select"

\* run with no eviction before the loop.
startup_cleanup_old_skipped(rs, t) == rs

\* run: self.storage.cleanup_old() before the loop
startup_cleanup_old(rs, t) == cleanup_old(rs, t)

\* run: HotkeyListener::new(&self.config.hotkey)?: an error returns from run.
after_listener_new(res) == IF res[1] = "Ok" THEN "select" ELSE "failed"

\* run with a startup eviction whose error is dropped.
after_startup_cleanup_ignore_error(ok) == "select"

\* run: self.storage.cleanup_old()?: an error returns from run.
after_startup_cleanup(ok) == IF ok THEN "select" ELSE "failed"

\* spawn_popup: what becomes of the request. When current_exe() fails no
\* process is started; the result of Command::spawn is dropped (let _ =).
spawn_popup(exe_ok, spawn_ok) ==
    IF ~exe_ok THEN "exe_err" ELSE IF spawn_ok THEN "spawned" ELSE "spawn_err"

\* run with a failed spawn that ends the loop.
after_spawn_popup_stop_on_error(outcome) ==
    IF outcome = "spawned" THEN "select" ELSE "failed"

\* run: self.spawn_popup() returns nothing: the loop goes on.
after_spawn_popup(outcome) == "select"

\* The fingerprint of the candidate Entry a poll computes, None if the read
\* yields none.
candidate_hash(c, t) ==
    LET r == read_as_entry(c, t)
    IN IF r[1] = "Ok" /\ r[2] # None THEN Some(Unwrap(r[2]).hash) ELSE None

Event(kind, outcome, hash) == [kind |-> kind, outcome |-> outcome, hash |-> hash]

\* The store bookkeeping of a daemon step that may have inserted a row.
Bookkeeping ==
    /\ log' = IF \E r \in rows' : r \notin rows
              THEN Append(Live(log, rows'), (CHOOSE r \in rows' : r \notin rows).id)
              ELSE Live(log, rows')
    /\ issued' = IF \E r \in rows' : r \notin rows
                 THEN Max(issued, (CHOOSE r \in rows' : r \notin rows).id)
                 ELSE issued

\* Daemon::new: Storage::open()?, get_latest_hash()?, Config::load()
DaemonNew ==
    /\ pc = "new"
    /\ \E open_ok \in BOOLEAN, loaded \in Configs :
          IF open_ok
          THEN /\ last_hash' = seed_last_hash(rows)
               /\ cfg' = loaded
               /\ pc' = "run"
               /\ ev' = Event("new", "Ok", None)
          ELSE /\ pc' = "failed"
               /\ ev' = Event("new", "Err", None)
               /\ UNCHANGED <<last_hash, cfg>>
    /\ UNCHANGED <<storeVars, popupVars, clip, pid_file, ctrl_c, sigint, popups, hotkeyVars>>

\* Daemon::run up to the loop: cleanup_old()?, the poll interval, the hotkey
\* channel, HotkeyListener::new(..)? and the spawn of the listener task.
RunStart ==
    /\ pc = "run"
    /\ \E cleanup_ok \in BOOLEAN :
          LET listener == HotkeyListener_new(config.hotkey)
              entered == /\ after_startup_cleanup(cleanup_ok) = "select"
                         /\ after_listener_new(listener) = "select"
          IN /\ pc' = IF entered THEN "select" ELSE "failed"
             /\ rows' = IF cleanup_ok THEN startup_cleanup_old(rows, now) ELSE rows
             /\ ev' = Event("startup",
                            IF ~cleanup_ok THEN "cleanup_err"
                            ELSE IF listener[1] = "Err" THEN "hotkey_err" ELSE "Ok",
                            None)
             /\ lpc' = IF entered THEN "start" ELSE lpc
    /\ Bookkeeping
    /\ ctrl_c' = FALSE
    /\ UNCHANGED <<now, ticks, ret, popup_state, clip, last_hash, pid_file, cfg, sigint, popups,
                   pressed, event_ch, dev, fired, kev, keys_down, hotkey_ch>>

\* run: _ = poll.tick() => poll_clipboard, then the next select!
Poll ==
    /\ pc = "select"
    /\ \E insert_ok \in BOOLEAN, cleanup_ok \in BOOLEAN :
          LET p == poll_clipboard(rows, last_hash, clip, now, insert_ok, cleanup_ok)
          IN /\ p.rows # rows => Cardinality(rows) < MaxRows
             /\ rows' = p.rows
             /\ last_hash' = p.last_hash
             /\ pc' = after_poll(p.result)
             /\ ev' = Event("poll", p.outcome, candidate_hash(clip, now))
    /\ Bookkeeping
    /\ ctrl_c' = FALSE
    /\ UNCHANGED <<now, ticks, ret, popup_state, clip, pid_file, cfg, sigint, popups, hotkeyVars>>

\* The task run spawned owns hotkey_tx, the only sender of the hotkey channel,
\* until listen returns.
hotkey_tx_alive == lpc \in {"start", "recv", "send"}

\* A recv() whose None, the answer of a closed and empty channel, is taken for
\* a signal.
hotkey_rx_recv_none_matches(n, alive) ==
    IF n > 0 \/ ~alive THEN "Some" ELSE "Pending"

\* run: hotkey_rx.recv() in select!: Some(()) when a message is buffered, even
\* after the sender is dropped; None when the channel is empty and the sender
\* is dropped; pending otherwise. The branch pattern is Some(()), so on None
\* select! disables the branch for this turn and waits for the other two.
hotkey_rx_recv(n, alive) ==
    IF n > 0 THEN "Some" ELSE IF alive THEN "Pending" ELSE "None"

\* run: Some(()) = hotkey_rx.recv() => spawn_popup, then the next select!
Hotkey ==
    /\ pc = "select"
    /\ hotkey_rx_recv(hotkey_ch, hotkey_tx_alive) = "Some"
    /\ hotkey_ch' = hotkey_ch - 1
    /\ popups' = popups + 1
    /\ \E exe_ok \in BOOLEAN, spawn_ok \in BOOLEAN :
          /\ ev' = Event("hotkey", spawn_popup(exe_ok, spawn_ok), None)
          /\ pc' = after_spawn_popup(spawn_popup(exe_ok, spawn_ok))
    /\ ctrl_c' = FALSE
    /\ UNCHANGED <<storeVars, popupVars, clip, last_hash, pid_file, cfg, sigint,
                   lpc, pressed, event_ch, dev, fired, kev, keys_down>>

\* cleanup: the marker is removed if it exists; remove_file may fail.
\* run: _ = signal::ctrl_c() => { self.cleanup()?; break; }
Shutdown ==
    /\ pc = "select"
    /\ ctrl_c
    /\ \E remove_ok \in BOOLEAN :
          IF pid_file /\ ~remove_ok
          THEN /\ pc' = "failed"
               /\ ev' = Event("shutdown", "Err", None)
               /\ UNCHANGED pid_file
          ELSE /\ pc' = "done"
               /\ ev' = Event("shutdown", "Ok", None)
               /\ pid_file' = FALSE
    /\ UNCHANGED <<storeVars, popupVars, clip, last_hash, cfg, ctrl_c, sigint, popups, hotkeyVars>>

\* A SIGINT is delivered while the loop waits in select!: the ctrl_c() future
\* of this select! becomes ready. signal::ctrl_c() is called anew in every turn
\* of the loop and each future completes only on a signal received after it
\* was first polled, so when select! takes another ready branch (Poll, Hotkey)
\* the ready future is dropped and the signal with it: those actions reset
\* ctrl_c.
Signal ==
    /\ pc = "select"
    /\ ~sigint
    /\ sigint' = TRUE
    /\ ctrl_c' = TRUE
    /\ UNCHANGED <<storeVars, popupVars, clip, pc, last_hash, pid_file, cfg, popups, ev, hotkeyVars>>

\* The listener task spawned by run begins listen, while the daemon runs.
ListenerStart ==
    /\ pc = "select"
    /\ ListenStart
    /\ UNCHANGED <<storeVars, popupVars, daemonVars>>

\* The listener task sends a combo signal into the hotkey channel.
ComboSignal ==
    /\ pc = "select"
    /\ lpc = "recv"
    /\ hotkey_ch < HOTKEY_CHANNEL_CAP
    /\ popups + hotkey_ch < MaxPopups
    /\ hotkey_ch' = hotkey_ch + 1
    /\ UNCHANGED <<storeVars, popupVars, daemonVars, lpc, pressed, event_ch, dev, fired, kev, keys_down>>

\* The user copies something else.
ClipChange ==
    /\ pc = "select"
    /\ \E c \in ClipValues \ {clip} : clip' = c
    /\ UNCHANGED <<storeVars, popupVars, pc, last_hash, pid_file, cfg, ctrl_c, sigint, popups, ev, hotkeyVars>>

\* The clock advances while the daemon runs.
DaemonTick ==
    /\ pc = "select"
    /\ Tick
    /\ UNCHANGED <<rows, ret, popup_state, issued, log, daemonVars, hotkeyVars>>

\* main: run_daemon is started again after the daemon ended; daemonize writes
\* the marker for the new process, whose tasks and channels are new.
Restart ==
    /\ pc \in {"done", "failed"}
    /\ pc' = "new"
    /\ pid_file' = TRUE
    /\ last_hash' = None
    /\ ctrl_c' = FALSE
    /\ sigint' = FALSE
    /\ ev' = NoEvent
    /\ lpc' = "none"
    /\ hotkey_ch' = 0
    /\ popups' = 0
    /\ dev' = [d \in Devices |-> "running"]
    /\ UNCHANGED <<storeVars, popupVars, clip, cfg, pressed, event_ch, fired, kev, keys_down>>

Next ==
    \/ DaemonNew
    \/ RunStart
    \/ Poll
    \/ Hotkey
    \/ Shutdown
    \/ Signal
    \/ ListenerStart
    \/ ComboSignal
    \/ ClipChange
    \/ DaemonTick
    \/ Restart

Spec == Init /\ [][Next]_vars

\* The timer ticks for ever and select! takes a branch that is ready every
\* time round sooner or later.
FairSpec ==
    /\ Spec
    /\ WF_vars(DaemonNew)
    /\ WF_vars(RunStart)
    /\ WF_vars(Poll)
    /\ SF_vars(Hotkey)
    /\ SF_vars(Shutdown)

----------------------------------------------------------------------------
(* ListenerEndSpec: the daemon with a listener whose device tasks end. The  *)
(* clock stands still: nothing checked here depends on the age of a row.   *)

\* A device task of the running daemon's listener ends on an error.
DeviceTaskEnds ==
    /\ pc = "select"
    /\ DeviceError
    /\ UNCHANGED <<storeVars, popupVars, daemonVars>>

\* The listener task of the running daemon finds the merged channel closed:
\* listen returns Ok(()) and the task ends, which drops hotkey_tx.
ListenerClosed ==
    /\ pc = "select"
    /\ ListenClosed
    /\ UNCHANGED <<storeVars, popupVars, daemonVars>>

ListenerEndNext ==
    \/ DaemonNew
    \/ RunStart
    \/ Poll
    \/ Hotkey
    \/ Shutdown
    \/ Signal
    \/ ListenerStart
    \/ ComboSignal
    \/ DeviceTaskEnds
    \/ ListenerClosed
    \/ ClipChange
    \/ Restart

ListenerEndSpec == Init /\ [][ListenerEndNext]_vars

----------------------------------------------------------------------------
(* ClearSpec: the daemon, and the clear command run by the user meanwhile *)

\* main: cmd_clear, run as a process of its own: Storage::open()?.clear()?
CmdClear ==
    /\ rows' = clear(rows)
    /\ Deleted
    /\ UNCHANGED <<now, ticks, ret, popup_state, issued, daemonVars, hotkeyVars>>

ClearNext ==
    \/ Next
    \/ CmdClear

ClearSpec == Init /\ [][ClearNext]_vars

----------------------------------------------------------------------------
(* Claims about the daemon loop (Spec, FairSpec) *)

\* The row inserted last among the live rows.
LastInserted == CHOOSE r \in rows : r.id = log[Len(log)]

\* The candidate Entry of a poll in the current state, if the read yields one.
Candidate == read_as_entry(clip, now)
HasCandidate == Candidate[1] = "Ok" /\ Candidate[2] # None
CandidateHash == Unwrap(Candidate[2]).hash
StoredOutcomes == {"inserted", "cleanup_err"}
PollErrors == {"read_err", "insert_err", "cleanup_err"}
RowsWithHash(h) == {r \in rows : r.hash = h}

\* A step of the poll branch. The conjuncts before Poll follow from Poll.
PollStep == pc = "select" /\ ev'.kind = "poll" /\ clip' = clip /\ now' = now /\ Poll

\* C1: a poll whose read yields content with the last-seen fingerprint leaves
\* the store and the last-seen fingerprint as they were; and when the event
\* before a poll was a poll that read content with the same fingerprint and did
\* not fail to insert it, the later poll adds nothing, so the two polls together
\* add at most the one Entry of the first.
C1_DedupSameFingerprint ==
    [][(HasCandidate /\ PollStep) =>
          /\ (last_hash = Some(CandidateHash) =>
                 rows' = rows /\ last_hash' = last_hash)
          /\ (ev.kind = "poll" /\ ev.hash = Some(CandidateHash) /\ ev.outcome # "insert_err" =>
                 rows' = rows /\ ev'.outcome = "dup")]_vars

\* A later poll has found the content it stored earlier and skipped it: the
\* store holds that content once.
C1_Witness ==
    /\ ev.kind = "poll"
    /\ ev.outcome = "dup"
    /\ HasCandidate
    /\ last_hash = Some(CandidateHash)
    /\ Cardinality(RowsWithHash(CandidateHash)) = 1
    /\ \E r \in RowsWithHash(CandidateHash) : r.created_at < now

\* C4: a poll whose read yields content with a fingerprint other than the
\* last-seen one, and whose insert succeeds, adds exactly one row, with the
\* candidate's fingerprint and the next id, and sets the last-seen fingerprint
\* to it; when the eviction succeeds too, the store after the step is the old
\* store plus the new row with every expired row deleted; and the loop is back
\* in select! after that one step.
C4_NewContentInsertThenEvict ==
    [][(HasCandidate /\ last_hash # Some(CandidateHash) /\ PollStep) =>
          /\ pc' = "select"
          /\ ev'.outcome \in StoredOutcomes \cup {"insert_err"}
          /\ (ev'.outcome \in StoredOutcomes =>
                 /\ last_hash' = Some(CandidateHash)
                 /\ \E r \in rows' \ rows :
                       /\ r.hash = CandidateHash
                       /\ r.created_at = now
                       /\ r.id = next_rowid(rows)
                       /\ rows' \ rows = {r})
          /\ (ev'.outcome = "cleanup_err" => rows \subseteq rows')
          /\ (ev'.outcome = "inserted" =>
                 /\ \A r \in rows' : r.created_at >= now - RETENTION_HOURS * 3600
                 /\ \A r \in rows :
                       r \in rows' <=> r.created_at >= now - RETENTION_HOURS * 3600)]_vars

\* A poll has stored new content as row 2 and the eviction of the same poll
\* has deleted the expired row 1.
C4_Witness ==
    /\ ev.kind = "poll"
    /\ ev.outcome = "inserted"
    /\ Cardinality(rows) = 1
    /\ \E r \in rows : r.id = 2 /\ r.created_at = now /\ last_hash = Some(r.hash)

\* C8: once a SIGINT has been delivered to the running loop, the loop
\* eventually terminates (run returns).
C8_SignalEventuallyTerminates == sigint ~> (pc \in {"done", "failed"})

\* C8: the signal was delivered, another branch of select! was taken, and the
\* loop is waiting again with no shutdown pending.
C8_SignalLost == ~(sigint /\ ~ctrl_c /\ pc = "select" /\ ev.kind = "poll")

\* C9: after a poll that returned an error (a failed read, a failed insert or
\* a failed eviction) the loop is in select! again, where the poll tick, the
\* hotkey signal and the shutdown signal are served.
C9_PollErrorKeepsLoopRunning ==
    (ev.kind = "poll" /\ ev.outcome \in PollErrors) =>
        /\ pc = "select"
        /\ ENABLED Poll
        /\ (hotkey_ch > 0 => ENABLED Hotkey)
        /\ (ctrl_c => ENABLED Shutdown)

\* The read of a poll has failed on image data that is not a PNG and the loop
\* is waiting in select!.
C9_Witness ==
    /\ ev.kind = "poll"
    /\ ev.outcome = "read_err"
    /\ ev.hash = None
    /\ read(clip) = <<"Err", "InvalidImage">>
    /\ pc = "select"

\* C10 as stated: after a poll whose insert or eviction failed the daemon is
\* no longer running.
C10_PollStoreFailureFatal ==
    (ev.kind = "poll" /\ ev.outcome \in {"insert_err", "cleanup_err"}) => pc # "select"

\* C10: a store failure ends the daemon only before the loop starts (opening
\* the store in Daemon::new, the startup eviction in run); after a poll whose
\* insert or eviction failed the loop is still running.
C10_StoreFailureFatalOnlyAtStartup ==
    /\ (ev.kind = "new" /\ ev.outcome = "Err" => pc = "failed")
    /\ (ev.kind = "startup" /\ ev.outcome = "cleanup_err" => pc = "failed")
    /\ (ev.kind = "poll" /\ ev.outcome \in {"insert_err", "cleanup_err"} => pc = "select")

\* The eviction of a poll has failed after its insert, and the loop is waiting
\* in select! with the new row stored.
C10_Witness ==
    /\ ev.kind = "poll"
    /\ ev.outcome = "cleanup_err"
    /\ pc = "select"
    /\ \E r \in rows : last_hash = Some(r.hash) /\ r.created_at = now

\* The startup eviction has failed and run has returned the error.
C10_WitnessStartup ==
    /\ ev.kind = "startup"
    /\ ev.outcome = "cleanup_err"
    /\ pc = "failed"

\* C11: once the discovery of keyboards has failed (find_keyboards returned an
\* error or no device) the daemon processes no poll tick any more.
C11_DiscoveryFailureStopsLoop ==
    [][lpc = "failed" => ~PollStep]_vars

\* The HotkeyConfig names resolve: the key to a key code, and at least one
\* modifier name to a modifier key.
ValidHotkeyConfig(c) ==
    /\ parse_key(c.key) # None
    /\ \E i \in 1..Len(c.modifiers) : parse_modifier(c.modifiers[i]) # None

\* C12: HotkeyListener::new fails exactly for a configuration whose key name
\* resolves to no key or none of whose modifier names resolves; when it fails,
\* run has returned the error with the listener task not spawned, nothing in
\* the hotkey channel and no event processed since; the loop is only ever
\* entered with a configuration that resolves.
C12_InvalidHotkeyConfigAbortsRun ==
    /\ \A c \in Configs : HotkeyListener_new(c)[1] = "Err" <=> ~ValidHotkeyConfig(c)
    /\ (ev.kind = "startup" /\ ev.outcome = "hotkey_err" =>
           /\ ~ValidHotkeyConfig(cfg)
           /\ pc = "failed"
           /\ lpc = "none"
           /\ hotkey_ch = 0)
    /\ (pc = "select" => ValidHotkeyConfig(cfg) /\ lpc # "none")

\* run has returned the error of a configuration whose key is known and whose
\* modifier names are all unknown.
C12_Witness ==
    /\ ev.kind = "startup"
    /\ ev.outcome = "hotkey_err"
    /\ pc = "failed"
    /\ parse_key(cfg.key) # None
    /\ modifier_keys(cfg) = {}

\* run has returned the error of a configuration whose key name is unknown.
C12_WitnessKey ==
    /\ ev.kind = "startup"
    /\ ev.outcome = "hotkey_err"
    /\ pc = "failed"
    /\ parse_key(cfg.key) = None

\* C16: when Daemon::new has succeeded the last-seen fingerprint is
\* get_latest_hash of the store (None when it is empty); and when the first
\* event of the loop is a poll that reads the content of the most recently
\* inserted Entry, whether or not the startup eviction has deleted that Entry,
\* the poll inserts nothing.
C16_SeedFromLatestHash ==
    /\ [](pc = "run" =>
             /\ last_hash = get_latest_hash(rows)
             /\ rows = {} <=> last_hash = None
             /\ rows # {} => last_hash = Some(LastInserted.hash))
    /\ [][(ev.kind = "startup" /\ HasCandidate /\ last_hash = Some(CandidateHash)
              /\ PollStep) =>
             rows' = rows /\ last_hash' = last_hash]_vars

\* The daemon has been started on a store that holds Entries, has seeded the
\* last-seen fingerprint from it and entered the loop, and the clipboard holds
\* the content of the most recently inserted Entry, which differs from the
\* older one.
C16_Witness ==
    /\ pc = "select"
    /\ ev.kind = "startup"
    /\ Cardinality(rows) = 2
    /\ HasCandidate
    /\ last_hash = Some(CandidateHash)
    /\ LastInserted.hash = CandidateHash
    /\ \E r \in rows : r.hash # CandidateHash

\* What the clipboard read of a poll in the current state returns.
ReadNow == read(clip)

\* C19: a poll whose read is Empty or fails with ImageTooLarge returns Ok and
\* leaves the store and the last-seen fingerprint as they were, expired rows
\* included, and the loop goes on.
C19_EmptyOrOversizedIsNoOp ==
    [][((ReadNow = <<"Err", "ImageTooLarge">>
            \/ (ReadNow[1] = "Ok" /\ ReadNow[2].kind = "Empty"))
        /\ PollStep) =>
          /\ rows' = rows
          /\ last_hash' = last_hash
          /\ ev'.outcome \in {"empty", "too_large"}
          /\ poll_clipboard(rows, last_hash, clip, now, TRUE, TRUE).result = "Ok"
          /\ pc' = "select"]_vars

\* A poll has skipped an oversized image while the store held an expired row,
\* which is still there.
C19_Witness ==
    /\ ev.kind = "poll"
    /\ ev.outcome = "too_large"
    /\ byte_len(clip.data) > MAX_IMAGE_SIZE_BYTES
    /\ \E r \in rows : expired(r, now)

\* A poll has found the clipboard empty while the store held an expired row,
\* which is still there.
C19_WitnessEmpty ==
    /\ ev.kind = "poll"
    /\ ev.outcome = "empty"
    /\ clip.kind = "empty"
    /\ \E r \in rows : expired(r, now)

\* A step of the shutdown branch.
ShutdownStep == pc = "select" /\ ev'.kind = "shutdown" /\ Shutdown

\* The row inserted last among the live rows of the next state.
LastInsertedNext == CHOOSE r \in rows' : r.id = log'[Len(log')]

\* C21: the shutdown signal is acted on only in a step of its own, which
\* changes neither the store nor the last-seen fingerprint; a poll step never
\* ends the loop, and when it has inserted an Entry it has also set the
\* last-seen fingerprint to that Entry's; so when the loop has terminated on a
\* shutdown signal and the store is not empty, the last-seen fingerprint is
\* that of the most recently inserted Entry.
C21_ShutdownBetweenEvents ==
    /\ [](ev.kind = "shutdown" /\ rows # {} => last_hash = Some(LastInserted.hash))
    /\ [][ShutdownStep => rows' = rows /\ last_hash' = last_hash /\ ctrl_c]_vars
    /\ [][PollStep =>
             /\ pc' = "select"
             /\ (rows' \ rows # {} =>
                    /\ LastInsertedNext \in rows' \ rows
                    /\ last_hash' = Some(LastInsertedNext.hash))]_vars

\* The loop has terminated on a shutdown signal with two Entries of different
\* content in the store, the later one inserted at the present second.
C21_Witness ==
    /\ ev.kind = "shutdown"
    /\ pc = "done"
    /\ Cardinality(rows) = 2
    /\ LastInserted.created_at = now
    /\ \E r \in rows : r.hash # LastInserted.hash
    /\ last_hash = Some(LastInserted.hash)

\* C22: the loop is entered only by the startup step of run, and only when
\* that step's eviction succeeded: the store the loop starts with is the store
\* run found minus every expired row; when the eviction fails run has returned
\* the error with the store as it was and the loop not entered; and no poll
\* tick, hotkey signal or shutdown signal is processed before that step.
C22_StartupEvictionBeforeLoop ==
    /\ [][(pc' = "select" /\ pc # "select") =>
             /\ pc = "run"
             /\ ev' = Event("startup", "Ok", None)
             /\ rows' = {r \in rows : r.created_at >= now - RETENTION_HOURS * 3600}]_vars
    /\ [][(pc = "run" /\ ev'.outcome = "cleanup_err") =>
             pc' = "failed" /\ rows' = rows /\ lpc' = lpc]_vars
    /\ [](pc \in {"new", "run"} => ev.kind \in {"none", "new"})
    /\ [](ev.kind = "startup" /\ ev.outcome = "cleanup_err" => pc = "failed")

\* The loop has just been entered and the startup eviction has deleted every
\* Entry of the store the daemon was started on.
C22_Witness ==
    /\ pc = "select"
    /\ ev = Event("startup", "Ok", None)
    /\ last_hash # None
    /\ rows = {}

\* A step of the hotkey branch.
HotkeyStep == pc = "select" /\ ev'.kind = "hotkey" /\ hotkey_ch > 0 /\ Hotkey

\* C23: a step of the hotkey branch takes one signal out of the channel and
\* makes one spawn request, leaves the store, its bookkeeping and the last-seen
\* fingerprint as they were, and leaves the loop in select!, whether the
\* process was spawned or not; requests are made in no other step.
C23_HotkeySpawnsOnce ==
    /\ [][HotkeyStep =>
             /\ popups' = popups + 1
             /\ hotkey_ch' = hotkey_ch - 1
             /\ rows' = rows
             /\ last_hash' = last_hash
             /\ UNCHANGED storeVars
             /\ pc' = "select"]_vars
    /\ [][popups' > popups => ev'.kind = "hotkey" /\ popups' = popups + 1]_vars
    /\ [](ev.kind = "hotkey" =>
             pc = "select" /\ ev.outcome \in {"spawned", "spawn_err", "exe_err"})

\* The spawn of the display surface has failed, the loop is waiting in select!
\* and the store holds an Entry.
C23_Witness ==
    /\ ev = Event("hotkey", "spawn_err", None)
    /\ pc = "select"
    /\ popups = 1
    /\ rows # {}
    /\ last_hash # None

\* C32: a poll whose insert fails changes neither the store (the expired rows
\* stay: no eviction runs) nor the last-seen fingerprint, which is not the
\* candidate's; inside the loop the last-seen fingerprint changes only in a
\* poll step whose insert succeeded, to the fingerprint of the row that step
\* added; and a poll that follows a poll whose insert failed and reads content
\* with the same fingerprint is not skipped as a duplicate: it attempts the
\* insert again.
C32_FailedInsertLeavesFingerprint ==
    /\ [][(PollStep /\ ev'.outcome = "insert_err") =>
             /\ rows' = rows
             /\ last_hash' = last_hash
             /\ last_hash' # ev'.hash]_vars
    /\ [][(pc = "select" /\ last_hash' # last_hash) =>
             /\ PollStep
             /\ ev'.outcome \in StoredOutcomes
             /\ \E r \in rows' \ rows : last_hash' = Some(r.hash)]_vars
    /\ [][(PollStep /\ ev.kind = "poll" /\ ev.outcome = "insert_err"
              /\ HasCandidate /\ ev.hash = Some(CandidateHash)) =>
             ev'.outcome \in StoredOutcomes \cup {"insert_err"}]_vars

\* C32 witness: the insert of a poll has failed while the store held an
\* expired row and a last-seen fingerprint other than the candidate's; both
\* are as they were.
C32_Witness ==
    /\ ev.kind = "poll"
    /\ ev.outcome = "insert_err"
    /\ pc = "select"
    /\ IsSome(last_hash)
    /\ last_hash # ev.hash
    /\ \E r \in rows : expired(r, now) /\ last_hash = Some(r.hash)

----------------------------------------------------------------------------
(* Claims about the Storage engine, checked under StorageSpec *)

\* Position of id in the insertion log (0 if absent).
LogPos(id) ==
    IF \E i \in 1..Len(log) : log[i] = id
    THEN CHOOSE i \in 1..Len(log) : log[i] = id
    ELSE 0

\* Entry a is newer than Entry b: created later, or in the same second and
\* inserted later.
Newer(a, b) ==
    /\ a.created_at >= b.created_at
    /\ LogPos(a.id) > LogPos(b.id)

\* result is the answer to a query matching the Entries of set m with a limit:
\* the min(limit, |m|) newest of them, newest first.
IsAnswer(result, m, limit) ==
    /\ Len(result) = Min(limit, Cardinality(m))
    /\ Range(result) \subseteq m
    /\ \A i, j \in 1..Len(result) : i < j => Newer(result[i], result[j])
    /\ \A x \in m \ Range(result) : \A y \in Range(result) : Newer(y, x)

StoredEntries == {row_to_entry(r) : r \in rows}

\* C3: every id insert returns is larger than every id insert returned before.
C3_InsertIdsStrictlyIncrease ==
    ret.op = "insert" => ret.val > ret.issued

\* query occurs in text as a literal, case-sensitive substring.
Contains(text, query) ==
    \E k \in 0..(Len(text) - Len(query)) :
        SubSeq(text, k + 1, k + Len(query)) = query

\* C5 as stated: search returns exactly the text/link Entries whose content
\* contains the query as a case-sensitive literal substring, newest first, at
\* most limit of them.
C5_SearchLiteralCaseSensitive ==
    ret.op = "search" =>
        IsAnswer(ret.val,
                 {e \in StoredEntries :
                     /\ e.content_type \in {"Text", "Link"}
                     /\ IsSome(e.content)
                     /\ Contains(Unwrap(e.content), ret.arg[1])},
                 ret.arg[2])

\* Two characters are the same but for the case of an ASCII letter.
SameLetter(a, b) == a = b \/ {a, b} \in {{"a", "A"}, {"b", "B"}}

\* piece, in which _ stands for any one character, occurs in text right after
\* position k.
PieceAt(piece, text, k) ==
    /\ k + Len(piece) <= Len(text)
    /\ \A i \in 1..Len(piece) :
          piece[i] = "_" \/ SameLetter(piece[i], text[k + i])

\* The pieces of a query between its % characters.
RECURSIVE Pieces(_)
Pieces(q) ==
    IF \E i \in 1..Len(q) : q[i] = "%"
    THEN LET i == CHOOSE i \in 1..Len(q) :
                     q[i] = "%" /\ \A j \in 1..(i - 1) : q[j] # "%"
         IN <<SubSeq(q, 1, i - 1)>> \o Pieces(SubSeq(q, i + 1, Len(q)))
    ELSE <<q>>

\* The pieces occur in text one after the other, from position k on.
RECURSIVE InOrder(_, _, _)
InOrder(ps, text, k) ==
    \/ ps = << >>
    \/ \E at \in k..Len(text) :
          /\ PieceAt(Head(ps), text, at)
          /\ InOrder(Tail(ps), text, at + Len(Head(ps)))

\* C5 as amended: the match is SQLite's LIKE '%query%': ASCII letters match
\* without regard to case, _ in the query matches any one character and % any run
\* of characters.
C5_SearchLikePattern ==
    ret.op = "search" =>
        IsAnswer(ret.val,
                 {e \in StoredEntries :
                     /\ e.content_type \in {"Text", "Link"}
                     /\ IsSome(e.content)
                     /\ InOrder(Pieces(ret.arg[1]), Unwrap(e.content), 0)},
                 ret.arg[2])

\* C5 witness: a search returned an Entry that does not hold the query as a
\* literal substring, and left another stored Entry out.
C5_Witness ==
    /\ ret.op = "search"
    /\ \E i \in 1..Len(ret.val) : ~Contains(Unwrap(ret.val[i].content), ret.arg[1])
    /\ \E e \in StoredEntries : e \notin Range(ret.val)

\* C6: list(limit) returns the min(limit, count()) most recent Entries, the
\* later-inserted before the earlier-inserted, also within one second.
C6_ListNewestFirst ==
    ret.op = "list" => IsAnswer(ret.val, StoredEntries, ret.arg)

\* C6 witness: a list of two Entries created in the same second.
C6_Witness ==
    /\ ret.op = "list"
    /\ Len(ret.val) = 2
    /\ ret.val[1].created_at = ret.val[2].created_at
    /\ IsSome(ret.val[1].content) /\ IsSome(ret.val[2].content)
    /\ ret.val[1].content # ret.val[2].content

\* C7: cleanup_old deletes exactly the rows created before
\* now - RETENTION_HOURS * 3600, returns their number, and leaves the others as
\* they were.
C7_CleanupOldExact ==
    ret.op = "cleanup_old" =>
        /\ rows = {r \in ret.before : r.created_at >= ret.at - RETENTION_HOURS * 3600}
        /\ ret.val = Cardinality({r \in ret.before :
                                    r.created_at < ret.at - RETENTION_HOURS * 3600})

\* C7 witness: a cleanup_old of a table holding a row one second older than the
\* cutoff and a row created at the cutoff: the first went, the second stayed.
C7_Witness ==
    /\ ret.op = "cleanup_old"
    /\ ret.val = 1
    /\ \E r \in ret.before :
          r.created_at = ret.at - RETENTION_HOURS * 3600 - 1 /\ r \notin rows
    /\ \E r \in ret.before :
          r.created_at = ret.at - RETENTION_HOURS * 3600 /\ r \in rows

\* C13: in the state an insert of Entry e has produced, get_by_id of the id it
\* returned finds an Entry with that id whose content type, content, image
\* data, fingerprint and creation time are those of e.
C13_InsertGetByIdRoundTrip ==
    ret.op = "insert" =>
        LET got == get_by_id(rows, ret.val)
        IN /\ got[1] = "Ok"
           /\ got[2].id = ret.val
           /\ got[2].content_type = ret.arg.content_type
           /\ got[2].content = ret.arg.content
           /\ got[2].image_data = ret.arg.image_data
           /\ got[2].hash = ret.arg.hash
           /\ got[2].created_at = ret.arg.created_at

\* C13 witness: a Link has been inserted into a table that held another row.
C13_Witness ==
    /\ ret.op = "insert"
    /\ ret.arg.content_type = "Link"
    /\ Cardinality(rows) = 2
    /\ get_by_id(rows, ret.val)[2].content_type = "Link"

\* C14: get_by_id of an id no live row has returns NotFound(id); of an id a
\* live row has it returns that row's Entry; in both cases the table is as it
\* was.
C14_GetByIdNotFound ==
    ret.op = "get_by_id" =>
        /\ rows = ret.before
        /\ ((\A r \in rows : r.id # ret.arg) => ret.val = <<"NotFound", ret.arg>>)
        /\ (ret.val[1] = "Ok" => ret.val[2].id = ret.arg /\ ret.val[2] \in StoredEntries)

\* C14 witness: NotFound for an id that was assigned earlier and whose row is
\* gone, while another row is live.
C14_Witness ==
    /\ ret.op = "get_by_id"
    /\ ret.val = <<"NotFound", ret.arg>>
    /\ ret.arg <= issued
    /\ rows # {}

\* C14 witness: NotFound for an id that has never been assigned.
C14_WitnessNeverAssigned ==
    /\ ret.op = "get_by_id"
    /\ ret.val = <<"NotFound", ret.arg>>
    /\ ret.arg > issued
    /\ rows # {}

\* C15: get_latest_hash returns None exactly when the table is empty, and
\* otherwise the hash of the row that is newer than every other row (created
\* later, or in the same second and inserted later); in the state an insert
\* has produced it is the hash of the inserted Entry.
C15_LatestHash ==
    /\ ret.op = "get_latest_hash" =>
          /\ ret.val = None <=> rows = {}
          /\ rows # {} =>
                \E r \in rows :
                    /\ ret.val = Some(r.hash)
                    /\ \A o \in rows \ {r} : Newer(r, o)
    /\ ret.op = "insert" => get_latest_hash(rows) = Some(ret.arg.hash)

\* C15 witness: two rows of the same second with different hashes, and
\* get_latest_hash has returned the hash of the one inserted last.
C15_Witness ==
    /\ ret.op = "get_latest_hash"
    /\ Cardinality(rows) = 2
    /\ \A a, b \in rows : a.created_at = b.created_at
    /\ \E a, b \in rows : a.hash # b.hash
    /\ ret.val = Some(LastInserted.hash)

\* C17: clear returns the number of rows the table held and leaves it empty:
\* count is 0 and list and search return nothing; count returns the number of
\* live rows.
C17_ClearAndCount ==
    /\ ret.op = "clear" =>
          /\ ret.val = Cardinality(ret.before)
          /\ rows = {}
          /\ count(rows) = 0
          /\ \A limit \in 1..MaxRows : list(rows, limit) = << >>
          /\ \A q \in Queries, limit \in 1..MaxRows : search(rows, q, limit) = << >>
    /\ ret.op = "count" => ret.val = Len(log) /\ ret.val = Cardinality({r.id : r \in rows})

\* C17 witness: a clear of a table of two rows.
C17_Witness ==
    /\ ret.op = "clear"
    /\ ret.val = 2
    /\ Cardinality(ret.before) = 2

\* C18: an insert adds exactly one row, with the Entry's hash, and keeps the
\* others; count is one more than before.
C18_InsertAddsOneRow ==
    ret.op = "insert" =>
        /\ ret.before \subseteq rows
        /\ Cardinality(rows \ ret.before) = 1
        /\ \A r \in rows \ ret.before : r.hash = ret.arg.hash /\ r.id = ret.val
        /\ count(rows) = count(ret.before) + 1

\* C18 witness: an insert of an Entry whose hash a stored row already had.
C18_Witness ==
    /\ ret.op = "insert"
    /\ \E r \in ret.before : r.hash = ret.arg.hash
    /\ Cardinality({r \in rows : r.hash = ret.arg.hash}) = 2

\* C24: no two live rows share an id, and a Storage call (an insert, an
\* eviction, a clear or a query) leaves get_by_id of every id that is live
\* before and after it as it was: the Entry of an id does not change while the
\* id stays live. ret.before is the table as the last call found it.
C24_IdsUniqueEntriesImmutable ==
    /\ \A a, b \in rows : a.id = b.id => a = b
    /\ Len(log) = Cardinality(rows)
    /\ \A r \in ret.before :
          (\E o \in rows : o.id = r.id) =>
              /\ get_by_id(rows, r.id) = get_by_id(ret.before, r.id)
              /\ get_by_id(rows, r.id) = <<"Ok", row_to_entry(r)>>

\* C24 witness: the Entry of id 2 has stayed live through the eviction of the
\* Entry of id 1 and the insert of the Entry of id 3.
C24_Witness ==
    /\ ret.op = "insert"
    /\ ret.val = 3
    /\ {r.id : r \in rows} = {2, 3}
    /\ \E r \in rows : r.id = 2 /\ r \in ret.before

\* Exactly one of content / image_data is set, and it is the one of the
\* content type.
WellShaped(e) ==
    /\ IsSome(e.content) <=> e.content_type \in {"Text", "Link"}
    /\ IsSome(e.image_data) <=> e.content_type = "Image"
    /\ IsSome(e.content) # IsSome(e.image_data)

\* C25: every Entry the capture path creates (new_text, new_image, and
\* read_as_entry of whatever the clipboard holds), every Entry handed to
\* insert, and every Entry get_by_id, list and search return from a table
\* filled by such inserts, has content set exactly when it is a Text or a Link
\* and image_data exactly when it is an Image, and never both or neither.
C25_ExactlyOnePayload ==
    /\ \A e \in NewEntries(now) : WellShaped(e)
    /\ \A c \in ClipValues :
          LET r == read_as_entry(c, now)
          IN (r[1] = "Ok" /\ r[2] # None) => WellShaped(Unwrap(r[2]))
    /\ ret.op = "insert" => WellShaped(ret.arg)
    /\ (ret.op = "get_by_id" /\ ret.val[1] = "Ok") => WellShaped(ret.val[2])
    /\ ret.op \in {"list", "search"} =>
          \A i \in 1..Len(ret.val) : WellShaped(ret.val[i])
    /\ \A e \in StoredEntries : WellShaped(e)

\* C25 witness: list has returned an Image and a Link.
C25_Witness ==
    /\ ret.op = "list"
    /\ Len(ret.val) = 2
    /\ \E i \in 1..2 : ret.val[i].content_type = "Image" /\ ret.val[i].content = None
    /\ \E i \in 1..2 : ret.val[i].content_type = "Link" /\ ret.val[i].image_data = None

\* The rows whose content-type tag ContentType::parse does not know.
Malformed == {r \in rows : parse(r.content_type) = None}

\* C27: a row with an unknown tag is returned as a Text Entry with the row's
\* other fields; get_by_id of its id succeeds; list returns the
\* min(limit, count) newest rows, such rows included, and search the newest
\* rows whose content matches, such rows included: the other rows are
\* returned as they are without it.
C27_UnknownTagCoercedToText ==
    /\ \A r \in Malformed :
          /\ row_to_entry(r) = [r EXCEPT !.content_type = "Text"]
          /\ get_by_id(rows, r.id) = <<"Ok", [r EXCEPT !.content_type = "Text"]>>
    /\ (ret.op = "get_by_id" /\ (\E r \in Malformed : r.id = ret.arg)) =>
          /\ ret.val[1] = "Ok"
          /\ ret.val[2].content_type = "Text"
    /\ ret.op = "list" =>
          /\ IsAnswer(ret.val, StoredEntries, ret.arg)
          /\ \A i \in 1..Len(ret.val) : ret.val[i].content_type \in {"Text", "Link", "Image"}
    /\ ret.op = "search" =>
          IsAnswer(ret.val,
                   {e \in StoredEntries :
                       /\ IsSome(e.content)
                       /\ InOrder(Pieces(ret.arg[1]), Unwrap(e.content), 0)},
                   ret.arg[2])

\* C27 witness: list has returned the Entry of a row with an unknown tag as a
\* Text, after a Link inserted later.
C27_Witness ==
    /\ ret.op = "list"
    /\ Len(ret.val) = 2
    /\ ret.val[1].content_type = "Link"
    /\ ret.val[2].content_type = "Text"
    /\ \E r \in Malformed : r.id = ret.val[2].id

\* C27 witness: search has returned the Entry of a row with an unknown tag and
\* another Entry.
C27_WitnessSearch ==
    /\ ret.op = "search"
    /\ Len(ret.val) = 2
    /\ \E i \in 1..2 : \E r \in Malformed : r.id = ret.val[i].id
    /\ \E i \in 1..2 : \A r \in Malformed : r.id # ret.val[i].id

----------------------------------------------------------------------------
(* Claims about the hotkey listener, checked under HotkeySpec *)

\* C2: the listener emits a combo signal on an event exactly when the event is
\* a press of the trigger key and every configured modifier is in pressed at
\* that instant (modifiers {Alt, Shift}, trigger C).
C2_ComboIffModifiersHeld ==
    kev.fired <=>
        /\ kev.key = "KEY_C"
        /\ kev.is_press
        /\ {"KEY_LEFTALT", "KEY_LEFTSHIFT"} \subseteq pressed

\* C2 witness: Alt and Shift are down and the press of C fired the combo.
C2_Witness ==
    /\ kev = [key |-> "KEY_C", is_press |-> TRUE, fired |-> TRUE]
    /\ pressed = {"KEY_LEFTALT", "KEY_LEFTSHIFT", "KEY_C"}
    /\ fired = 1

\* C2, second witness state: C was pressed with Shift released again and did
\* not fire.
C2_WitnessNoFire ==
    /\ kev = [key |-> "KEY_C", is_press |-> TRUE, fired |-> FALSE]
    /\ pressed = {"KEY_LEFTALT", "KEY_C"}

\* C20: a step in which a device task ends ends exactly one task and leaves
\* the listener, its pressed set and both channels as they were; listen
\* returns only when every device task has ended and the merged channel is
\* drained; and while a device task is alive and the channels have room, a
\* key event of a live device can be forwarded.
C20_DeviceErrorEndsOnlyThatTask ==
    /\ [][dev' # dev =>
             /\ \E d \in Devices :
                   /\ dev[d] = "running"
                   /\ dev'[d] = "ended"
                   /\ \A o \in Devices \ {d} : dev'[o] = dev[o]
             /\ UNCHANGED <<lpc, pressed, event_ch, fired, kev, keys_down, hotkey_ch>>]_vars
    /\ [](lpc = "done" => event_ch = << >> /\ \A d \in Devices : dev[d] = "ended")
    /\ []((/\ \E d \in Devices : dev[d] = "running"
           /\ lpc \in {"recv", "send"}
           /\ Len(event_ch) < MaxEvents
           /\ fired < MaxFired) => ENABLED DeviceEvent)

\* One device task has ended, the other is alive, and the listener has just
\* matched the combo.
C20_Witness ==
    /\ \E d \in Devices : dev[d] = "ended"
    /\ \E d \in Devices : dev[d] = "running"
    /\ lpc = "send"
    /\ kev.fired

\* C28: the count of emitted signals grows only in a step in which the
\* listener takes a press of the trigger key out of the merged channel with
\* every modifier already in pressed, and by one; a step that takes any other
\* event (a modifier press or release, a trigger release, another key) emits
\* nothing, also when it leaves the trigger and every modifier in pressed; a
\* signal enters the hotkey channel only after such a match; and the merged
\* channel never holds a repeat: its events are presses and releases.
C28_SignalOnlyOnTriggerPress ==
    /\ [][fired' # fired =>
             /\ fired' = fired + 1
             /\ lpc = "recv" /\ lpc' = "send"
             /\ event_ch # << >>
             /\ Head(event_ch) = <<the_trigger_key, TRUE>>
             /\ modifiers \subseteq pressed
             /\ kev' = [key |-> the_trigger_key, is_press |-> TRUE, fired |-> TRUE]]_vars
    /\ [][(event_ch # << >> /\ event_ch' = Tail(event_ch) /\ lpc = "recv"
              /\ Head(event_ch) # <<the_trigger_key, TRUE>>) =>
             fired' = fired /\ lpc' = "recv" /\ hotkey_ch' = hotkey_ch]_vars
    /\ [][hotkey_ch' > hotkey_ch => lpc = "send" /\ kev.fired /\ fired' = fired]_vars
    /\ [](\A i \in 1..Len(event_ch) : event_ch[i][1] \in Keys /\ event_ch[i][2] \in BOOLEAN)

\* C28 witness: the trigger was pressed first, then the modifiers; the trigger
\* and both modifiers are down, the last event was the press of a modifier, and
\* nothing has fired.
C28_Witness ==
    /\ pressed = {"KEY_C", "KEY_LEFTALT", "KEY_LEFTSHIFT"}
    /\ kev = [key |-> "KEY_LEFTSHIFT", is_press |-> TRUE, fired |-> FALSE]
    /\ fired = 0
    /\ hotkey_ch = 0

----------------------------------------------------------------------------
(* Claims about the merge of the devices' events, checked under MergeSpec *)

\* A step in which the listener takes the event at the head of the merged
\* channel.
RecvStep == lpc = "recv" /\ event_ch # << >> /\ event_ch' = Tail(event_ch)

\* C29: pressed changes only when the listener takes an event out of the
\* merged channel, and then the event's key is in pressed exactly if the event
\* is a press, and every other key as before, whichever device sent the event
\* and whatever keys are down on the devices: so a key is in pressed exactly
\* if the latest merged event for it was a press. The press of the trigger
\* fires exactly if every modifier is in pressed, on whichever devices the
\* keys are down.
C29_PressedMergesDevices ==
    /\ [][RecvStep =>
             LET key == Head(event_ch)[1]
                 is_press == Head(event_ch)[2]
             IN /\ key \in pressed' <=> is_press
                /\ \A o \in Keys \ {key} : o \in pressed' <=> o \in pressed
                /\ kev'.fired <=>
                      /\ key = the_trigger_key
                      /\ is_press
                      /\ modifiers \subseteq pressed]_vars
    /\ [][pressed' # pressed => RecvStep]_vars
    /\ [][keys_down' # keys_down =>
             /\ pressed' = pressed
             /\ \/ event_ch' = event_ch
                \/ \E key \in Keys, is_press \in BOOLEAN :
                      event_ch' = Append(event_ch, <<key, is_press>>)]_vars
    /\ [](pressed = {} \/ lpc \in {"recv", "send"})

\* C29 witness: both modifiers are down on one keyboard only, the trigger is
\* down on the other only, every event has been merged, and the press of the
\* trigger has fired the combo.
C29_Witness ==
    /\ keys_down["kbd0"] = modifiers
    /\ keys_down["kbd1"] = {the_trigger_key}
    /\ event_ch = << >>
    /\ kev = [key |-> the_trigger_key, is_press |-> TRUE, fired |-> TRUE]
    /\ pressed = ComboKeys

\* C29 witness: a modifier is down on one keyboard and has been released on
\* the other; every event has been merged, and the modifier is not in pressed.
C29_WitnessRelease ==
    /\ keys_down["kbd0"] = {"KEY_LEFTALT"}
    /\ keys_down["kbd1"] = {}
    /\ event_ch = << >>
    /\ kev = [key |-> "KEY_LEFTALT", is_press |-> FALSE, fired |-> FALSE]
    /\ pressed = {}

----------------------------------------------------------------------------
(* Claims about the two channels, checked under FairMergeSpec *)

\* Signals the listener has matched and not yet put into the hotkey channel.
Waiting == IF lpc = "send" THEN 1 ELSE 0

\* C30: every combo match is in exactly one place: waiting in the listener's
\* send, in the hotkey channel, or taken by the loop as a spawn request, so
\* the requests never exceed the matches; neither channel holds more than its
\* capacity, and a send into the full hotkey channel completes only by putting
\* the signal in; the merged channel changes only by an event appended at its
\* tail or the event at its head taken by the listener, which takes exactly
\* that event; and every match is eventually followed by its spawn request.
C30_ChannelsLoseNothing ==
    /\ [](popups + hotkey_ch + Waiting = fired)
    /\ [](popups <= fired)
    /\ [](hotkey_ch <= HOTKEY_CHANNEL_CAP /\ Len(event_ch) <= EVENT_CHANNEL_CAP)
    /\ [][(lpc = "send" /\ lpc' # "send") =>
             /\ hotkey_ch < HOTKEY_CHANNEL_CAP
             /\ hotkey_ch' = hotkey_ch + 1]_vars
    /\ [][event_ch' # event_ch =>
             \/ /\ event_ch # << >>
                /\ event_ch' = Tail(event_ch)
                /\ kev'.key = Head(event_ch)[1]
                /\ kev'.is_press = Head(event_ch)[2]
             \/ /\ Len(event_ch) < EVENT_CHANNEL_CAP
                /\ \E key \in Keys, is_press \in BOOLEAN :
                      event_ch' = Append(event_ch, <<key, is_press>>)]_vars
    /\ [][popups' # popups => popups' = popups + 1 /\ hotkey_ch' = hotkey_ch - 1]_vars
    /\ \A n \in 1..MaxFired : (fired >= n) ~> (popups >= n)

\* C30 witness: the hotkey channel is full with the first match and the
\* listener waits in the send of the second.
C30_Witness ==
    /\ fired = 2
    /\ hotkey_ch = HOTKEY_CHANNEL_CAP
    /\ lpc = "send"
    /\ popups = 0

\* C30 witness: both matches have become spawn requests.
C30_WitnessDelivered ==
    /\ fired = 2
    /\ popups = 2
    /\ hotkey_ch = 0
    /\ lpc # "send"

----------------------------------------------------------------------------
(* Claims about retention in the loop, checked under Spec *)

\* The startup step of run.
StartupStep == pc = "run" /\ ev'.kind = "startup"

\* list, search for its own content, and get_by_id return the Entry of row r.
Returned(r) ==
    /\ get_by_id(rows, r.id) = <<"Ok", row_to_entry(r)>>
    /\ row_to_entry(r) \in Range(list(rows, count(rows)))
    /\ IsSome(r.content) =>
           row_to_entry(r) \in Range(search(rows, Unwrap(r.content), count(rows)))

\* C34: a daemon step deletes rows only as the startup step of run or as a
\* poll step that inserted and whose eviction succeeded, and the rows it
\* deletes are expired ones; any other poll step (a duplicate, an empty or
\* failed read, a failed insert) leaves the store as it was, so an expired row
\* stays; every stored row, expired or not, is returned by get_by_id, by list
\* and by a search for its content; and after a poll step that inserted and
\* evicted no stored row is expired and the inserted row is stored.
C34_ExpiredStayUntilEviction ==
    /\ [](\A r \in rows : Returned(r))
    /\ [][(\E r \in rows : r \notin rows') =>
             /\ StartupStep \/ (PollStep /\ ev'.outcome = "inserted")
             /\ \A r \in rows \ rows' : expired(r, now)]_vars
    /\ [][(PollStep /\ ev'.outcome \notin StoredOutcomes) => rows' = rows]_vars
    /\ [][(PollStep /\ ev'.outcome = "inserted") =>
             /\ \A r \in rows' : ~expired(r, now')
             /\ \E r \in rows' \ rows :
                   /\ r.created_at = now'
                   /\ last_hash' = Some(r.hash)]_vars

\* C34 witness: a poll has skipped the unchanged clipboard content while its
\* Entry in the store is expired; the Entry is still stored and returned.
C34_Witness ==
    /\ pc = "select"
    /\ ev.kind = "poll"
    /\ ev.outcome = "dup"
    /\ \E r \in rows : expired(r, now) /\ last_hash = Some(r.hash) /\ Returned(r)

\* C34 witness: a poll has inserted and its eviction has deleted the expired
\* row that the store held.
C34_WitnessEvicted ==
    /\ pc = "select"
    /\ ev.kind = "poll"
    /\ ev.outcome = "inserted"
    /\ issued = 2
    /\ {r.id : r \in rows} = {2}
    /\ now > RETENTION_HOURS * 3600

----------------------------------------------------------------------------
(* Claims about the loop and the clear command, checked under ClearSpec *)

\* C33: inside the loop the last-seen fingerprint changes only in a poll step
\* whose insert succeeded, where it becomes the fingerprint of the inserted
\* Entry whatever the eviction of that poll deletes; the startup step of run
\* with its eviction, a clear by the clear command and a hotkey step leave it
\* as it was; so while the store is empty and the clipboard holds the content
\* with the last-seen fingerprint, a poll inserts nothing: the store gets its
\* next Entry only from a poll that reads content with another fingerprint.
C33_FingerprintOutlivesTheStore ==
    /\ [][(pc = "select" /\ last_hash' # last_hash) =>
             /\ PollStep
             /\ ev'.outcome \in StoredOutcomes
             /\ last_hash' = Some(CandidateHash)]_vars
    /\ [][RunStart => last_hash' = last_hash]_vars
    /\ [][CmdClear => last_hash' = last_hash /\ rows' = {}]_vars
    /\ [][HotkeyStep => last_hash' = last_hash /\ rows' = rows]_vars
    /\ [][(PollStep /\ rows = {} /\ HasCandidate /\ last_hash = Some(CandidateHash)) =>
             /\ rows' = {}
             /\ last_hash' = last_hash
             /\ ev'.outcome = "dup"]_vars
    /\ [][(pc = "select" /\ rows = {} /\ rows' # {}) =>
             /\ PollStep
             /\ HasCandidate
             /\ last_hash # Some(CandidateHash)]_vars

\* C33 witness: the clear command has emptied the store within the second in
\* which the Entry was stored, and a poll that read the same content after it
\* has inserted nothing.
C33_Witness ==
    /\ pc = "select"
    /\ rows = {}
    /\ issued > 0
    /\ ticks = 0
    /\ ev.kind = "poll"
    /\ ev.outcome = "dup"
    /\ last_hash = ev.hash

\* C33 witness: the startup eviction has emptied the store the last-seen
\* fingerprint was seeded from, and a poll of the same content after it has
\* inserted nothing.
C33_WitnessEviction ==
    /\ pc = "select"
    /\ rows = {}
    /\ issued = 1
    /\ popups = 0
    /\ now > RETENTION_HOURS * 3600
    /\ ev.kind = "poll"
    /\ ev.outcome = "dup"
    /\ last_hash = ev.hash

----------------------------------------------------------------------------
(* Claims about the loop after the listener task, checked under            *)
(* ListenerEndSpec                                                         *)

\* The listener task has terminated: listen returned the discovery error, or
\* it returned Ok(()) when the merged channel was closed.
ListenerOver == lpc \in {"failed", "done"}

\* C31 as stated: once the listener task has terminated the loop calls
\* spawn_popup no more.
C31_NoSpawnAfterListenerEnd ==
    [][(ListenerOver /\ pc = "select") => popups' = popups]_vars

\* C31: once the listener task has terminated the sender of the hotkey channel
\* is dropped and nothing is sent any more; the loop stays in select!, where a
\* poll tick is served and a ready shutdown signal is served, and it leaves
\* select! only by the shutdown step; recv() on the closed channel is not
\* pending; spawn_popup is called only for a signal that was in the channel
\* when the task ended (none after a failed discovery, at most
\* HOTKEY_CHANNEL_CAP otherwise).
C31_ListenerEndKeepsLoopRunning ==
    /\ []((ListenerOver /\ pc = "select") =>
            /\ ~hotkey_tx_alive
            /\ hotkey_rx_recv(hotkey_ch, hotkey_tx_alive) # "Pending"
            /\ hotkey_ch <= HOTKEY_CHANNEL_CAP
            /\ ENABLED Poll
            /\ (ctrl_c => ENABLED Shutdown)
            /\ (hotkey_ch = 0 => ~ENABLED Hotkey))
    /\ []((lpc = "failed" /\ pc = "select") => hotkey_ch = 0)
    /\ [][(ListenerOver /\ pc = "select") =>
             /\ lpc' = lpc
             /\ hotkey_ch' <= hotkey_ch
             /\ (pc' = "select" \/ ShutdownStep)
             /\ (popups' # popups =>
                    /\ HotkeyStep
                    /\ popups' = popups + 1
                    /\ hotkey_ch' = hotkey_ch - 1)]_vars

\* C31 witness: the discovery of keyboards has failed and a poll after it has
\* stored an Entry.
C31_Witness ==
    /\ lpc = "failed"
    /\ pc = "select"
    /\ ev.kind = "poll"
    /\ ev.outcome = "inserted"
    /\ popups = 0

\* C31 witness: every device task has ended and listen has returned with a
\* signal still in the hotkey channel.
C31_WitnessBuffered ==
    /\ lpc = "done"
    /\ \A d \in Devices : dev[d] = "ended"
    /\ pc = "select"
    /\ hotkey_ch = 1

\* C31 witness: the loop has terminated on a shutdown signal after listen
\* returned.
C31_WitnessShutdown ==
    /\ lpc = "done"
    /\ ev.kind = "shutdown"
    /\ pc = "done"

----------------------------------------------------------------------------
(* Claims about a configuration with an unknown modifier name, checked     *)
(* under PartialSpec                                                       *)

\* Configurations with a known key, some with modifier names that resolve to
\* no key.
PartialConfigs ==
    {PartialHotkeyConfig,
     [modifiers |-> <<"Hyper", "Shift">>, key |-> "x"],
     [modifiers |-> <<"Hyper", "Alt", "Shift">>, key |-> "C"],
     [modifiers |-> <<"Hyper">>, key |-> "C"],
     [modifiers |-> << >>, key |-> "C"],
     DefaultHotkeyConfig}

\* The names of a configuration that resolve to a modifier key.
Resolved(c) ==
    {c.modifiers[i] : i \in {j \in 1..Len(c.modifiers) : parse_modifier(c.modifiers[j]) # None}}

\* HotkeyListener::new succeeds for a configuration with a known key exactly
\* when at least one of its modifier names resolves, and the listener it builds
\* has one modifier key per name that resolves and none for the others.
UnresolvedNamesDropped ==
    \A c \in PartialConfigs :
        /\ HotkeyListener_new(c)[1] = "Ok" <=> Resolved(c) # {}
        /\ HotkeyListener_new(c)[1] = "Ok" =>
               /\ Cardinality(HotkeyListener_new(c)[2].modifiers) = Cardinality(Resolved(c))
               /\ \A n \in Resolved(c) :
                     Unwrap(parse_modifier(n)) \in HotkeyListener_new(c)[2].modifiers

\* C35: HotkeyListener::new succeeds for a configuration with a known key
\* exactly when at least one of its modifier names resolves, and the listener
\* it builds has one modifier key per name that resolves and none for the
\* others; with modifiers ["Alt", "Hyper"] and key "C" the listener is built
\* with the modifier set {KEY_LEFTALT}, and it emits a combo signal on an
\* event exactly when the event is a press of C with Alt in pressed, whatever
\* else is.
C35_UnknownModifierDropped ==
    /\ UnresolvedNamesDropped
    /\ HotkeyListener_new(cfg) =
           <<"Ok", [modifiers |-> {"KEY_LEFTALT"}, trigger_key |-> "KEY_C"]>>
    /\ kev.fired <=>
           /\ kev.key = "KEY_C"
           /\ kev.is_press
           /\ "KEY_LEFTALT" \in pressed

\* C35 witness: only Alt and C are down, Shift is not, and the press of C
\* fired the combo.
C35_Witness ==
    /\ cfg.modifiers = <<"Alt", "Hyper">>
    /\ kev = [key |-> "KEY_C", is_press |-> TRUE, fired |-> TRUE]
    /\ pressed = {"KEY_LEFTALT", "KEY_C"}
    /\ fired = 1

----------------------------------------------------------------------------
(* Claims about the popup's state machine, checked under PopupSpec *)

\* The rows view draws: one per index in filtered, none past the entries.
FilteredInRange ==
    \A i \in 1..Len(popup_state.filtered) :
        popup_state.filtered[i] \in 0..(Len(popup_state.entries) - 1)

\* The selection points into filtered, or is 0 when filtered is empty.
SelectedInRange ==
    /\ popup_state.filtered = << >> => popup_state.selected = 0
    /\ popup_state.filtered # << >> => popup_state.selected < Len(popup_state.filtered)

\* C36: in the popup, after any sequence of SearchChanged, SelectNext or
\* ArrowDown and SelectPrev or ArrowUp messages, every index in filtered is a
\* valid index into entries (so view never indexes past the end), selected
\* is 0 when filtered is empty and below the length of filtered otherwise,
\* and a search change leaves selected at 0.
C36_PopupSelectionInRange ==
    /\ [](FilteredInRange /\ ~view(popup_state).panic)
    /\ []SelectedInRange
    /\ [](popup_state.filtered # << >> => IsSome(selected_entry(popup_state)))
    /\ [][PopupSearchChanged => popup_state'.selected = 0]_vars

\* A search that keeps two of three entries, with the last of them selected.
C36_Witness ==
    /\ popup_state.search # << >>
    /\ Len(popup_state.entries) = MaxPopupEntries
    /\ Len(popup_state.filtered) = 2
    /\ popup_state.filtered # Indices(2)
    /\ popup_state.selected = 1

\* A search that matches no entry of a store that has some.
C36_WitnessEmpty ==
    /\ popup_state.search # << >>
    /\ popup_state.entries # << >>
    /\ popup_state.filtered = << >>
    /\ popup_state.selected = 0

====
